---- MODULE Spec2Model ----
(***************************************************************************)
(* Model of wem_converter: the Ogg page writer (BitOggStream), the bit      *)
(* reader (BitStream), the bit-width integers (BitUint / BitUintV), the     *)
(* lookup-1 quantvals search, the copy of a codebook, the header pages and  *)
(* the packet loop of generate_ogg, the codebook table and its rebuild.     *)
(*                                                                          *)
(* Representation notes                                                     *)
(*  - A u32 is a pair <<hi, lo>> of 16-bit halves (TLC integers are 32-bit  *)
(*    signed, a u32 does not fit).                                          *)
(*  - The payload region of page_buffer (the bytes from offset              *)
(*    HEADER_BYTES + MAX_SEGMENTS on) is kept run-length encoded: a         *)
(*    sequence of runs [b |-> byte, n |-> count] in which adjacent runs     *)
(*    hold different bytes, so two payloads are equal byte for byte iff     *)
(*    their run lists are equal.  Only the payload_bytes live bytes are     *)
(*    kept; bytes left over from earlier pages are never read by the code.  *)
(*  - A page written to the sink is a record of its header fields, its      *)
(*    lacing table and its payload; the checksum bytes 22..25 are not       *)
(*    modelled.                                                             *)
(***************************************************************************)
EXTENDS Integers, Naturals, Sequences, FiniteSets, TLC

VARIABLES
    os,        \* the BitOggStream (fields of the struct, writer = pages written)
    ret,       \* outcome of the last call
    call,      \* the last call: operation, arguments, BitOggStream before it
    emitted,   \* per page written: the flush request that wrote it
    nops,      \* number of calls made so far
    rt,        \* BitUint / BitUintV round trip: inputs, position, results
    bs,        \* the BitStream of the round trip
    qv,        \* book_maptype1_quantvals: inputs, position, result
    conv,      \* generate_ogg: the parsed file, the locals, position, result
    lib        \* a codebook table file, the CodebookLibrary loaded from it, the last lookup

vars == <<os, ret, call, emitted, nops, rt, bs, qv, conv, lib>>

----------------------------------------------------------------------------
(* Program constants                                                        *)

HEADER_BYTES == 27
MAX_SEGMENTS == 255
SEGMENT_SIZE == 255

\* BitOggStream::new: capacity of page_buffer
Capacity == HEADER_BYTES + MAX_SEGMENTS + SEGMENT_SIZE * MAX_SEGMENTS

----------------------------------------------------------------------------
(* Bounds of the model                                                      *)

MaxOps == 5        \* calls made on one page writer
StackLimit == 6    \* nested call frames the stack holds before it overflows
MaxEntries == 300  \* largest codebook entry count tried by the quantvals search
MaxWalk == 40      \* candidates the quantvals search is followed through
MaxPackets == 3    \* audio packets in the data region of a conversion
MaxBlob == 3       \* bytes in the blob of a codebook table file
MaxOffsets == 2    \* offsets before the trailing pointer of a table file
MaxIndex == 3      \* largest index looked up in a codebook table
MaxDimensions == 2       \* dimensions of the codebooks copied and rebuilt
MaxCodebookEntries == 3  \* entries of the codebooks copied and rebuilt
MaxPad == 2              \* bytes after a packed codebook in its table
MaxCount == 2            \* floors, residues and mappings of a compact setup
MaxBytes == 2            \* bytes of the source a BitStream is read to the end of
MaxModes == 3            \* modes of a compact setup whose packets are modified
MaxValueBits == 8        \* width of the values of the lookup table a setup ends its codebook with
MaxTail == 5             \* bits after the initial length of an ordered codebook

----------------------------------------------------------------------------
(* u32 arithmetic on <<hi, lo>> pairs                                        *)

\* 1 << n, for 0 <= n <= 30
Pow2(n) ==
    << 1, 2, 4, 8, 16, 32, 64, 128, 256, 512, 1024, 2048, 4096, 8192, 16384,
       32768, 65536, 131072, 262144, 524288, 1048576, 2097152, 4194304,
       8388608, 16777216, 33554432, 67108864, 134217728, 268435456,
       536870912, 1073741824 >>[n + 1]

U32(n) == <<n \div 65536, n % 65536>>

\* (v >> i) & 1, for 0 <= i < 32
BitAt(v, i) ==
    IF i < 16 THEN (v[2] \div Pow2(i)) % 2 ELSE (v[1] \div Pow2(i - 16)) % 2

\* (v >> (k * 8)) & 0xFF, for 0 <= k < 4
ByteAt(v, k) ==
    IF k = 0 THEN v[2] % 256
    ELSE IF k = 1 THEN v[2] \div 256
    ELSE IF k = 2 THEN v[1] % 256
    ELSE v[1] \div 256

\* v | (1 << i), for 0 <= i < 32
OrBit(v, i) ==
    IF BitAt(v, i) = 1 THEN v
    ELSE IF i < 16 THEN <<v[1], v[2] + Pow2(i)>>
    ELSE <<v[1] + Pow2(i - 16), v[2]>>

GeU32(a, b) == a[1] > b[1] \/ (a[1] = b[1] /\ a[2] >= b[2])

\* the low w bits of v, 0 <= w <= 32
LowBits(v, w) ==
    IF w >= 32 THEN v
    ELSE IF w >= 16 THEN <<v[1] % Pow2(w - 16), v[2]>>
    ELSE <<0, v[2] % Pow2(w)>>

----------------------------------------------------------------------------
(* Run-length byte sequences                                                *)

RLen(p) ==
    LET RECURSIVE Sum(_)
        Sum(k) == IF k = 0 THEN 0 ELSE p[k].n + Sum(k - 1)
    IN Sum(Len(p))

RAppend(p, b) ==
    IF Len(p) > 0 /\ p[Len(p)].b = b
    THEN [p EXCEPT ![Len(p)].n = @ + 1]
    ELSE Append(p, [b |-> b, n |-> 1])

\* the run list of n copies of byte b
Run(b, n) == IF n = 0 THEN <<>> ELSE <<[b |-> b, n |-> n]>>

\* byte i (0-based) of the run list p, for i < RLen(p)
RByte(p, i) ==
    LET RECURSIVE At(_, _)
        At(k, j) == IF j < p[k].n THEN p[k].b ELSE At(k + 1, j - p[k].n)
    IN At(1, i)

\* the run list as a plain sequence of bytes (small lists only)
RBytes(p) == [i \in 1..RLen(p) |-> RByte(p, i - 1)]

----------------------------------------------------------------------------
(* BitOggStream                                                             *)

\* outcomes of a call: a returned Ok, a returned Err, or no return at all
\* (the stack overflows under unbounded recursion; a panic unwinds)
Ok(s) == [s |-> s, r |-> "ok"]
Err(s) == [s |-> s, r |-> "err"]
StackOverflow(s) == [s |-> s, r |-> "stack_overflow"]
Panic(s) == [s |-> s, r |-> "panic"]
Returned == {"ok", "err"}

\* BitOggStream::new
new_stream ==
    [ writer |-> <<>>,
      bit_buffer |-> 0,
      bits_stored |-> 0,
      page_buffer |-> <<>>,
      payload_bytes |-> 0,
      first |-> TRUE,
      continued |-> FALSE,
      granule |-> <<0, 0>>,
      seqno |-> 0 ]

\* the lacing table: entry i (0-based) of `segments` entries
lacing_table(payload_bytes, segments) ==
    [i \in 1..segments |->
        LET sub == SEGMENT_SIZE * (i - 1)
            bytes_left == IF payload_bytes >= sub THEN payload_bytes - sub ELSE 0
        IN IF bytes_left >= SEGMENT_SIZE THEN SEGMENT_SIZE ELSE bytes_left]

segment_count_rounded_up(payload_bytes) ==
    LET segments == (payload_bytes + SEGMENT_SIZE - 1) \div SEGMENT_SIZE
    IN IF segments > MAX_SEGMENTS + 1 THEN MAX_SEGMENTS ELSE segments

\* segment count of a page
segment_count(payload_bytes) ==
    LET segments == (payload_bytes + SEGMENT_SIZE) \div SEGMENT_SIZE
    IN IF segments > MAX_SEGMENTS + 1 THEN MAX_SEGMENTS ELSE segments

\* the payload after the loop that moves it from offset HEADER_BYTES +
\* MAX_SEGMENTS down to HEADER_BYTES + segments, copying forward a byte at a
\* time: exact when dst <= src, the first byte repeated when dst > src
moved_payload(page_buffer, payload_bytes, segments) ==
    IF segments <= MAX_SEGMENTS THEN page_buffer
    ELSE Run(page_buffer[1].b, payload_bytes)

\* the page assembled in page_buffer[0 .. HEADER_BYTES + segments + payload_bytes]
page_bytes(s, segments, last) ==
    [ capture_pattern |-> <<79, 103, 103, 83>>,
      version |-> 0,
      header_type |-> (IF s.continued THEN 1 ELSE 0)
                      + (IF s.first THEN 2 ELSE 0)
                      + (IF last THEN 4 ELSE 0),
      granule |-> s.granule,
      serial |-> 1,
      seqno |-> s.seqno,
      segments |-> segments % 256,
      lacing |-> lacing_table(s.payload_bytes, segments),
      payload |-> moved_payload(s.page_buffer, s.payload_bytes, segments) ]

\* a page was written without advancing the sequence number
page_written_same_seqno(s, page, next_continued) ==
    [s EXCEPT !.writer = Append(@, page),
              !.first = FALSE,
              !.continued = next_continued,
              !.payload_bytes = 0,
              !.page_buffer = <<>>]

\* a page was written without clearing the first-page flag
page_written_still_first(s, page, next_continued) ==
    [s EXCEPT !.writer = Append(@, page),
              !.seqno = @ + 1,
              !.continued = next_continued,
              !.payload_bytes = 0,
              !.page_buffer = <<>>]

\* the end of flush_page_internal: the page goes to the sink, then the
\* sequence number, the flags and the payload count are updated
page_written(s, page, next_continued) ==
    [s EXCEPT !.writer = Append(@, page),
              !.seqno = @ + 1,
              !.first = FALSE,
              !.continued = next_continued,
              !.payload_bytes = 0,
              !.page_buffer = <<>>]

RECURSIVE flush_bits_at(_, _)
RECURSIVE flush_page_at(_, _, _, _)

\* flush_bits, called with `depth` frames already on the stack
flush_bits_at(s, depth) ==
    IF depth > StackLimit THEN StackOverflow(s)
    ELSE IF s.bits_stored = 0 THEN Ok(s)
    ELSE IF s.payload_bytes = SEGMENT_SIZE * MAX_SEGMENTS
    THEN LET inner == flush_page_at(s, TRUE, FALSE, depth + 1)
         IN IF inner.r \in Returned THEN Err(inner.s) ELSE inner
    ELSE IF HEADER_BYTES + MAX_SEGMENTS + s.payload_bytes >= Capacity THEN Err(s)
    ELSE Ok([s EXCEPT !.page_buffer = RAppend(@, s.bit_buffer),
                      !.payload_bytes = @ + 1,
                      !.bits_stored = 0,
                      !.bit_buffer = 0])

\* flush_page_internal, called with `depth` frames already on the stack
flush_page_at(s0, next_continued, last, depth) ==
    IF depth > StackLimit THEN StackOverflow(s0)
    ELSE LET fb == flush_bits_at(s0, depth + 1)
             s == fb.s
             segments == segment_count(s.payload_bytes)
         IN IF fb.r # "ok" THEN fb
            ELSE IF s.payload_bytes = 0 THEN Ok(s)
            ELSE IF HEADER_BYTES + segments + s.payload_bytes - 1 >= Capacity
            THEN Panic(s)
            ELSE Ok(page_written(s, page_bytes(s, segments, last), next_continued))

flush_bits(s) == flush_bits_at(s, 0)

flush_page_internal(s, next_continued, last) ==
    flush_page_at(s, next_continued, last, 0)

flush_page(s, next_continued, last) ==
    flush_page_internal(s, next_continued, last)

set_granule(s, g) == Ok([s EXCEPT !.granule = g])

put_bit(s, bit) ==
    LET s1 == [s EXCEPT !.bit_buffer = IF bit /\ (@ \div Pow2(s.bits_stored)) % 2 = 0
                                       THEN @ + Pow2(s.bits_stored) ELSE @,
                        !.bits_stored = @ + 1]
    IN IF s1.bits_stored = 8 THEN flush_bits(s1) ELSE Ok(s1)

\* one byte stored at HEADER_BYTES + MAX_SEGMENTS + payload_bytes
store_byte(s, byte) ==
    IF HEADER_BYTES + MAX_SEGMENTS + s.payload_bytes >= Capacity THEN Err(s)
    ELSE Ok([s EXCEPT !.page_buffer = RAppend(@, byte),
                      !.payload_bytes = @ + 1])

\* the bit-by-bit branch of write_bits: bits lo .. hi-1 of value through
\* put_bit, in order, stopping at the first call that does not return Ok
\* (the loop is unfolded by halves)
RECURSIVE write_bits_serial(_, _, _, _)
write_bits_serial(s, value, lo, hi) ==
    IF hi <= lo THEN Ok(s)
    ELSE IF hi = lo + 1 THEN put_bit(s, BitAt(value, lo) # 0)
    ELSE LET mid == (lo + hi) \div 2
             head == write_bits_serial(s, value, lo, mid)
         IN IF head.r # "ok" THEN head
            ELSE write_bits_serial(head.s, value, mid, hi)

\* the whole-byte branch of write_bits: bytes i .. byte_count-1 of value
RECURSIVE write_bits_bytes(_, _, _, _)
write_bits_bytes(s, value, byte_count, i) ==
    IF i >= byte_count THEN Ok(s)
    ELSE LET sb == store_byte(s, ByteAt(value, i))
         IN IF sb.r # "ok" THEN sb ELSE write_bits_bytes(sb.s, value, byte_count, i + 1)

write_bits(s, value, bits) ==
    IF bits % 8 = 0
    THEN write_bits_bytes(s, value, bits \div 8, 0)
    ELSE write_bits_serial(s, value, 0, bits)

\* a run of n bytes b stored without the bound check
write_all_run_unchecked(s, b, n) ==
    Ok([s EXCEPT !.page_buffer = IF Len(@) > 0 /\ @[Len(@)].b = b
                                 THEN [@ EXCEPT ![Len(@)].n = @ + n]
                                 ELSE Append(@, [b |-> b, n |-> n]),
                 !.payload_bytes = @ + n])

\* the loop of write_all over a run of n bytes b of the buffer: each byte is
\* stored unless the page is full, where the call returns Err
write_all_run(s, b, n) ==
    LET room == SEGMENT_SIZE * MAX_SEGMENTS - s.payload_bytes
        k == IF n <= room THEN n ELSE room
        s1 == IF k = 0 THEN s
              ELSE [s EXCEPT !.page_buffer =
                                 IF Len(@) > 0 /\ @[Len(@)].b = b
                                 THEN [@ EXCEPT ![Len(@)].n = @ + k]
                                 ELSE Append(@, [b |-> b, n |-> k]),
                             !.payload_bytes = @ + k]
    IN IF k < n THEN Err(s1) ELSE Ok(s1)

RECURSIVE write_all_from(_, _, _)
write_all_from(s, buf, j) ==
    IF j > Len(buf) THEN Ok(s)
    ELSE LET w == write_all_run(s, buf[j].b, buf[j].n)
         IN IF w.r # "ok" THEN w ELSE write_all_from(w.s, buf, j + 1)

write_all(s, buf) == write_all_from(s, buf, 1)

\* Drop for BitOggStream: the result of the flush is discarded
drop(s) ==
    LET f == flush_page_internal(s, FALSE, FALSE)
    IN IF f.r \in Returned THEN Ok(f.s) ELSE f

----------------------------------------------------------------------------
(* BitStream                                                                *)

\* BitStream::new over a reader holding `bytes`, positioned at its start
new_bit_stream(bytes) ==
    [ reader |-> bytes, pos |-> 0,
      bit_buffer |-> 0, bits_left |-> 0, total_bits_read |-> 0 ]

get_bit_msb_first(b) ==
    IF b.bits_left = 0 /\ b.pos >= Len(b.reader)
    THEN [b |-> b, r |-> "err", bit |-> FALSE]
    ELSE LET b1 == IF b.bits_left = 0
                   THEN [b EXCEPT !.bit_buffer = b.reader[b.pos + 1],
                                  !.bits_left = 8,
                                  !.pos = @ + 1]
                   ELSE b
             b2 == [b1 EXCEPT !.total_bits_read = @ + 1,
                              !.bits_left = @ - 1]
         IN [b |-> b2, r |-> "ok",
             bit |-> (b2.bit_buffer \div Pow2(b2.bits_left)) % 2 # 0]

\* get_bit: the stream after the call, the outcome and the bit
get_bit(b) ==
    IF b.bits_left = 0 /\ b.pos >= Len(b.reader)
    THEN [b |-> b, r |-> "err", bit |-> FALSE]
    ELSE LET b1 == IF b.bits_left = 0
                   THEN [b EXCEPT !.bit_buffer = b.reader[b.pos + 1],
                                  !.bits_left = 8,
                                  !.pos = @ + 1]
                   ELSE b
             b2 == [b1 EXCEPT !.total_bits_read = @ + 1,
                              !.bits_left = @ - 1]
         IN [b |-> b2, r |-> "ok",
             bit |-> (b2.bit_buffer \div Pow2(7 - b2.bits_left)) % 2 # 0]

get_total_bits_read(b) == b.total_bits_read

----------------------------------------------------------------------------
(* BitUint<BIT_SIZE> and BitUintV                                           *)

\* BitUint::<BIT_SIZE>::new
bit_uint_new(BIT_SIZE, v) ==
    IF BIT_SIZE > 32 THEN [r |-> "err", total |-> v]
    ELSE IF BIT_SIZE < 32 /\ GeU32(v, OrBit(<<0, 0>>, BIT_SIZE))
    THEN [r |-> "err", total |-> v]
    ELSE [r |-> "ok", total |-> v]

\* BitUintV::new.  `1 << size` is a u32 shift: with size = 32 it overflows,
\* which panics in a build with overflow checks and shifts by size mod 32
\* in a build without them.
bit_uint_v_new(size, v, overflow_checks) ==
    IF size > 32 THEN [r |-> "err", total |-> v]
    ELSE IF size >= 32 /\ overflow_checks THEN [r |-> "panic", total |-> v]
    ELSE IF GeU32(v, OrBit(<<0, 0>>, size % 32)) THEN [r |-> "err", total |-> v]
    ELSE [r |-> "ok", total |-> v]

\* the loop of read_from: bits lo .. hi-1, in order, `total |= 1 << i` for
\* each bit set, stopping at the first get_bit that fails (the loop is
\* unfolded by halves)
RECURSIVE read_bits(_, _, _, _)
read_bits(b, lo, hi, total) ==
    IF hi <= lo THEN [b |-> b, r |-> "ok", total |-> total]
    ELSE IF hi = lo + 1
    THEN LET g == get_bit(b)
         IN [b |-> g.b, r |-> g.r,
             total |-> IF g.r = "ok" /\ g.bit THEN OrBit(total, lo) ELSE total]
    ELSE LET mid == (lo + hi) \div 2
             head == read_bits(b, lo, mid, total)
         IN IF head.r # "ok" THEN head
            ELSE read_bits(head.b, mid, hi, head.total)

\* BitUint::<BIT_SIZE>::read_from
bit_uint_read_from(b, BIT_SIZE) ==
    LET rd == read_bits(b, 0, BIT_SIZE, <<0, 0>>)
        made == bit_uint_new(BIT_SIZE, rd.total)
    IN IF rd.r # "ok" THEN rd ELSE [b |-> rd.b, r |-> made.r, total |-> made.total]

\* BitUintV::read_from
bit_uint_v_read_from(b, size, overflow_checks) ==
    LET rd == read_bits(b, 0, size, <<0, 0>>)
        made == bit_uint_v_new(size, rd.total, overflow_checks)
    IN IF rd.r # "ok" THEN rd ELSE [b |-> rd.b, r |-> made.r, total |-> made.total]

\* write_to of BitUint and of BitUintV: bits lo .. hi-1 of total, each
\* through write_bits(bit, 1), stopping at the first call that does not
\* return Ok (the loop is unfolded by halves)
RECURSIVE write_to_from(_, _, _, _)
write_to_from(s, total, lo, hi) ==
    IF hi <= lo THEN Ok(s)
    ELSE IF hi = lo + 1 THEN write_bits(s, <<0, BitAt(total, lo)>>, 1)
    ELSE LET mid == (lo + hi) \div 2
             head == write_to_from(s, total, lo, mid)
         IN IF head.r # "ok" THEN head
            ELSE write_to_from(head.s, total, mid, hi)

write_to(s, total, size) == write_to_from(s, total, 0, size)

----------------------------------------------------------------------------
(* ilog and book_maptype1_quantvals                                         *)

\* ilog: the number of bits needed to represent v
RECURSIVE ilog(_)
ilog(v) == IF v = 0 THEN 0 ELSE 1 + ilog(v \div 2)

\* a u64 is four 16-bit limbs, least significant first
U64One == <<1, 0, 0, 0>>

\* acc * m on u64, for m < 2^15: the product modulo 2^64 and whether the
\* multiplication overflowed
mul_u64(acc, m) ==
    LET t1 == acc[1] * m
        t2 == acc[2] * m + t1 \div 65536
        t3 == acc[3] * m + t2 \div 65536
        t4 == acc[4] * m + t3 \div 65536
    IN [ v |-> <<t1 % 65536, t2 % 65536, t3 % 65536, t4 % 65536>>,
         overflow |-> t4 \div 65536 > 0 ]

\* acc <= n and acc > n for a u64 acc and a u32 n < 2^31
le_u64(acc, n) ==
    acc[4] = 0 /\ acc[3] = 0 /\ acc[2] < 32768 /\ acc[2] * 65536 + acc[1] <= n
gt_u64(acc, n) == ~le_u64(acc, n)

\* the inner loop, iterations lo .. hi-1: acc *= vals; acc1 *= vals + 1.
\* With overflow checks the first overflowing multiplication panics; without
\* them the product wraps.  (The loop is unfolded by halves.)
RECURSIVE quantvals_powers(_, _, _, _, _)
quantvals_powers(st, vals, lo, hi, overflow_checks) ==
    IF hi <= lo \/ st.panic THEN st
    ELSE IF hi = lo + 1
    THEN LET a == mul_u64(st.acc, vals)
             a1 == mul_u64(st.acc1, vals + 1)
         IN [ acc |-> a.v, acc1 |-> a1.v,
              overflowed |-> st.overflowed \/ a.overflow \/ a1.overflow,
              panic |-> overflow_checks /\ (a.overflow \/ a1.overflow) ]
    ELSE LET mid == (lo + hi) \div 2
         IN quantvals_powers(quantvals_powers(st, vals, lo, mid, overflow_checks),
                             vals, mid, hi, overflow_checks)

\* the search loop of book_maptype1_quantvals from the candidate vals;
\* `steps` counts the candidates tried
RECURSIVE quantvals_walk(_, _, _, _, _, _)
quantvals_walk(entries, dimensions, vals, overflowed, steps, overflow_checks) ==
    LET p == quantvals_powers(
                 [acc |-> U64One, acc1 |-> U64One, overflowed |-> FALSE, panic |-> FALSE],
                 vals, 0, dimensions, overflow_checks)
        ov == overflowed \/ p.overflowed
    IN IF p.panic THEN [r |-> "panic", vals |-> vals, overflowed |-> TRUE]
       ELSE IF le_u64(p.acc, entries) /\ gt_u64(p.acc1, entries)
       THEN [r |-> "ok", vals |-> vals, overflowed |-> ov]
       ELSE IF steps >= MaxWalk
       THEN [r |-> "walking", vals |-> vals, overflowed |-> ov]
       ELSE IF gt_u64(p.acc, entries)
       THEN quantvals_walk(entries, dimensions, vals - 1, ov, steps + 1, overflow_checks)
       ELSE quantvals_walk(entries, dimensions, vals + 1, ov, steps + 1, overflow_checks)

\* book_maptype1_quantvals.  With dimensions 0 the subtraction
\* `dimensions - 1` overflows, which panics with overflow checks and wraps
\* without them, and then the division by `dimensions as i32` panics.  With
\* entries 0 the shift is -(dimensions - 1) / dimensions, which is 0 as the
\* division truncates.
book_maptype1_quantvals(entries, dimensions, overflow_checks) ==
    IF dimensions = 0 THEN [r |-> "panic", vals |-> 0, overflowed |-> overflow_checks]
    ELSE quantvals_walk(entries, dimensions,
                        IF ilog(entries) = 0 THEN entries
                        ELSE entries \div Pow2(((ilog(entries) - 1) * (dimensions - 1))
                                               \div dimensions),
                        FALSE, 0, overflow_checks)

----------------------------------------------------------------------------
(* A routine that reads a BitStream and writes a BitOggStream               *)

\* a u32 below 2^31 as an integer
ToInt(v) == v[1] * 65536 + v[2]

\* the state of such a routine: the input stream b, the output stream s, the
\* outcome r so far and the locals it has read, by name.  Every step below
\* is skipped once r is not "ok", as `?` returns at the first failure.
io_start(b, s) == [b |-> b, s |-> s, r |-> "ok", reg |-> <<>>]

\* the local `name`
Reg(io, name) == IF name \in DOMAIN io.reg THEN io.reg[name] ELSE <<0, 0>>

\* let name = total
io_let(io, name, total) == [io EXCEPT !.reg = (name :> total) @@ @]

\* return Err (or unwind) with outcome r
io_fail(io, r) == IF io.r = "ok" THEN [io EXCEPT !.r = r] ELSE io

\* if cond { return Err }
io_fail_if(io, cond, r) == IF io.r = "ok" /\ cond THEN [io EXCEPT !.r = r] ELSE io

\* the result rd of a read from io.b becomes the local `name`
io_took(io, name, rd) ==
    [io EXCEPT !.b = rd.b, !.r = rd.r, !.reg = (name :> rd.total) @@ @]

\* the result w of a call on io.s
io_wrote(io, w) == [io EXCEPT !.s = w.s, !.r = w.r]

\* let name = BitUint::<BIT_SIZE>::read_from(bis)?
io_read(io, name, BIT_SIZE) ==
    IF io.r # "ok" THEN io
    ELSE io_took(io, name, bit_uint_read_from(io.b, BIT_SIZE))

\* let name = BitUintV::read_from(bis, size)?
io_read_v(io, name, size, overflow_checks) ==
    IF io.r # "ok" THEN io
    ELSE io_took(io, name, bit_uint_v_read_from(io.b, size, overflow_checks))

\* BitUint::<BIT_SIZE>::new(total)?.write_to(os)?
io_write(io, total, BIT_SIZE) ==
    IF io.r # "ok" THEN io
    ELSE IF bit_uint_new(BIT_SIZE, total).r # "ok" THEN io_fail(io, "err")
    ELSE io_wrote(io, write_to(io.s, total, BIT_SIZE))

\* name.write_to(os)? for a BitUint or BitUintV of that many bits
io_write_reg(io, name, size) ==
    IF io.r # "ok" THEN io
    ELSE io_wrote(io, write_to(io.s, Reg(io, name), size))

\* os.write_bits(value, bits)?
io_write_bits(io, value, bits) ==
    IF io.r # "ok" THEN io ELSE io_wrote(io, write_bits(io.s, value, bits))

\* os.write_bits(name.total, bits)?
io_write_bits_reg(io, name, bits) ==
    IF io.r # "ok" THEN io
    ELSE io_wrote(io, write_bits(io.s, Reg(io, name), bits))

\* os.write_all(buf)?
io_write_all(io, buf) ==
    IF io.r # "ok" THEN io ELSE io_wrote(io, write_all(io.s, buf))

\* os.flush_page(next_continued, last)?
io_flush_page(io, next_continued, last) ==
    IF io.r # "ok" THEN io
    ELSE io_wrote(io, flush_page(io.s, next_continued, last))

\* let name = BitUint::<BIT_SIZE>::read_from(bis)?; name.write_to(os)?
io_copy(io, name, BIT_SIZE) ==
    io_write_reg(io_read(io, name, BIT_SIZE), name, BIT_SIZE)

\* let name = BitUintV::read_from(bis, size)?; name.write_to(os)?
io_copy_v(io, name, size, overflow_checks) ==
    io_write_reg(io_read_v(io, name, size, overflow_checks), name, size)

----------------------------------------------------------------------------
(* CodebookLibrary::copy                                                    *)

\* the identifier is checked, then it, the dimensions and the entries are
\* written
copy_head(io) ==
    io_write(
        io_write(
            io_write_reg(io_fail_if(io, Reg(io, "id") # <<86, 17218>>, "err"), "id", 24),
            Reg(io, "dimensions"), 16),
        Reg(io, "entries"), 24)

\* the ordered branch: run lengths until current_entry reaches entries
RECURSIVE copy_ordered_runs(_, _, _)
RECURSIVE copy_ordered_next(_, _, _)
copy_ordered_runs(io, current_entry, overflow_checks) ==
    IF io.r # "ok" THEN io
    ELSE IF current_entry >= ToInt(Reg(io, "entries"))
    THEN io_fail_if(io, current_entry > ToInt(Reg(io, "entries")), "err")
    ELSE copy_ordered_next(
             io_copy_v(io, "number", ilog(ToInt(Reg(io, "entries")) - current_entry),
                       overflow_checks),
             current_entry, overflow_checks)

\* current_entry += number.total
copy_ordered_next(io, current_entry, overflow_checks) ==
    copy_ordered_runs(io, current_entry + ToInt(Reg(io, "number")), overflow_checks)

\* the codeword length of an entry that is present
copy_codeword_length(io) ==
    IF io.r = "ok" /\ Reg(io, "present") # <<0, 0>>
    THEN io_copy(io, "codeword_length", 5) ELSE io

\* one entry of the non-ordered branch: the present bit is read only when
\* sparse and written always
copy_entry(io) ==
    copy_codeword_length(
        io_write_reg(IF Reg(io, "sparse") # <<0, 0>> THEN io_read(io, "present", 1)
                     ELSE io_let(io, "present", <<0, 1>>),
                     "present", 1))

\* the entry loop of the non-ordered branch, entries lo .. hi-1 (unfolded by
\* halves)
RECURSIVE copy_entries(_, _, _)
copy_entries(io, lo, hi) ==
    IF io.r # "ok" \/ hi <= lo THEN io
    ELSE IF hi = lo + 1 THEN copy_entry(io)
    ELSE copy_entries(copy_entries(io, lo, (lo + hi) \div 2), (lo + hi) \div 2, hi)

\* the non-ordered branch after the sparse flag
copy_unordered(io) == copy_entries(io, 0, ToInt(Reg(io, "entries")))

\* the codeword lengths after the ordered flag
copy_lengths(io, overflow_checks) ==
    IF io.r # "ok" THEN io
    ELSE IF Reg(io, "ordered") # <<0, 0>>
    THEN copy_ordered_runs(io_copy(io, "initial_length", 5), 0, overflow_checks)
    ELSE copy_unordered(io_copy(io, "sparse", 1))

\* the quantized values of lookup type 1, values lo .. hi-1 (unfolded by
\* halves)
RECURSIVE copy_quantvals(_, _, _, _)
copy_quantvals(io, lo, hi, overflow_checks) ==
    IF io.r # "ok" \/ hi <= lo THEN io
    ELSE IF hi = lo + 1
    THEN io_copy_v(io, "val", ToInt(Reg(io, "value_length")) + 1, overflow_checks)
    ELSE copy_quantvals(copy_quantvals(io, lo, (lo + hi) \div 2, overflow_checks),
                        (lo + hi) \div 2, hi, overflow_checks)

\* for _ in 0..quantvals, where the count may have panicked
copy_lookup1_values(io, quantvals, overflow_checks) ==
    IF io.r # "ok" THEN io
    ELSE IF quantvals.r # "ok" THEN io_fail(io, quantvals.r)
    ELSE copy_quantvals(io, 0, quantvals.vals, overflow_checks)

\* lookup type 1, for dimensions >= 1: four fields are read, then written,
\* then come the quantized values
\* (the steps run from the innermost call outwards)
copy_lookup1(io, overflow_checks) ==
    copy_lookup1_values(
      io_write_reg(
        io_write_reg(
          io_write_reg(
            io_write_reg(
              io_read(
                io_read(
                  io_read(io_read(io, "min", 32), "max", 32),
                "value_length", 4),
              "sequence_flag", 1),
            "min", 32),
          "max", 32),
        "value_length", 4),
      "sequence_flag", 1),
    book_maptype1_quantvals(ToInt(Reg(io, "entries")), ToInt(Reg(io, "dimensions")), overflow_checks), overflow_checks)

\* the lookup table after the lookup type
copy_lookup(io, overflow_checks) ==
    IF io.r # "ok" \/ Reg(io, "lookup_type") = <<0, 0>> THEN io
    ELSE IF Reg(io, "lookup_type") = <<0, 1>> THEN copy_lookup1(io, overflow_checks)
    ELSE io_fail(io, "err")

\* CodebookLibrary::copy
\* (the steps run from the innermost call outwards)
copy(io, overflow_checks) ==
    copy_lookup(
      io_copy(
        copy_lengths(
          io_copy(
            copy_head(
              io_read(
                io_read(io_read(io, "id", 24), "dimensions", 16),
              "entries", 24)),
          "ordered", 1),
        overflow_checks),
      "lookup_type", 4),
    overflow_checks)

----------------------------------------------------------------------------
(* CodebookLibrary: the table of packed codebooks                           *)

\* an Option is a sequence of at most one value
None == <<>>
Some(x) == <<x>>

\* CodebookLibrary::new_empty
new_empty ==
    [codebook_data |-> None, codebook_offsets |-> None, codebook_count |-> 0]

\* i32::from_le_bytes of the four bytes at byte `pos`
read_i32_le(bytes, pos) ==
    bytes[pos + 1] + 256 * bytes[pos + 2] + 65536 * bytes[pos + 3]
    + 16777216 * (IF bytes[pos + 4] >= 128 THEN bytes[pos + 4] - 256
                  ELSE bytes[pos + 4])

\* u32::from_le_bytes of the four bytes at byte `pos`, as a pair
read_u32_le(bytes, pos) ==
    <<bytes[pos + 3] + 256 * bytes[pos + 4], bytes[pos + 1] + 256 * bytes[pos + 2]>>

\* a u32 exceeds the integer n >= 0
ExceedsU32(v, n) == v[1] >= 32768 \/ ToInt(v) > n

\* the library new_from_file makes once offset_offset is known to lie in the
\* file: the blob before it, then codebook_count offsets of four bytes
library_at(file, offset_offset) ==
    [ codebook_data |-> Some(SubSeq(file, 1, offset_offset)),
      codebook_offsets |->
          Some([k \in 1..((Len(file) - offset_offset) \div 4) |->
                   read_i32_le(file, offset_offset + 4 * (k - 1))]),
      codebook_count |-> (Len(file) - offset_offset) \div 4 ]

\* CodebookLibrary::new_from_file on the bytes of the file: a file shorter
\* than 4 bytes is refused, and so is one whose blob cannot be read in full
new_from_file(file) ==
    IF Len(file) < 4 THEN [r |-> "err", cbl |-> new_empty]
    ELSE IF ExceedsU32(read_u32_le(file, Len(file) - 4), Len(file))
    THEN [r |-> "err", cbl |-> new_empty]
    ELSE [r |-> "ok",
          cbl |-> library_at(file, ToInt(read_u32_le(file, Len(file) - 4)))]

\* i >= (self.codebook_count - 1) as usize, for an index below 2^63: the
\* cast of -1 is the largest usize
beyond_count(cbl, i) == cbl.codebook_count - 1 >= 0 /\ i >= cbl.codebook_count - 1

\* a as usize > b as usize for two i64
GtAsUsize(a, b) == IF (a < 0) = (b < 0) THEN a > b ELSE a < 0

\* &data[start..end] of offsets[i] and offsets[i + 1]: an index past the
\* offsets, a start after the end or an end past the blob panics
slice_at(data, offsets, i) ==
    IF i + 2 > Len(offsets) THEN [r |-> "panic", v |-> <<>>]
    ELSE IF GtAsUsize(offsets[i + 1], offsets[i + 2])
            \/ GtAsUsize(offsets[i + 2], Len(data))
    THEN [r |-> "panic", v |-> <<>>]
    ELSE [r |-> "ok", v |-> SubSeq(data, offsets[i + 1] + 1, offsets[i + 2])]

\* offsets[i + 1] - offsets[i]
size_at(offsets, i) ==
    IF i + 2 > Len(offsets) THEN [r |-> "panic", v |-> 0]
    ELSE [r |-> "ok", v |-> offsets[i + 2] - offsets[i + 1]]

\* CodebookLibrary::get_codebook
get_codebook(cbl, i) ==
    IF cbl.codebook_data = None \/ cbl.codebook_offsets = None
    THEN [r |-> "err", v |-> <<>>]
    ELSE IF beyond_count(cbl, i) THEN [r |-> "err", v |-> <<>>]
    ELSE slice_at(cbl.codebook_data[1], cbl.codebook_offsets[1], i)

\* CodebookLibrary::get_codebook_size
get_codebook_size(cbl, i) ==
    IF cbl.codebook_offsets = None THEN [r |-> "err", v |-> 0]
    ELSE IF beyond_count(cbl, i) THEN [r |-> "err", v |-> 0]
    ELSE size_at(cbl.codebook_offsets[1], i)

----------------------------------------------------------------------------
(* CodebookLibrary::rebuild                                                 *)

\* the identifier, the dimensions and the entries are written
rebuild_head(io) ==
    io_write(io_write(io_write(io, <<86, 17218>>, 24), Reg(io, "dimensions"), 16),
             Reg(io, "entries"), 24)

\* the codeword length of an entry that is present: read in
\* codeword_length_length bits, written in 5
rebuild_codeword_length(io, overflow_checks) ==
    IF io.r = "ok" /\ Reg(io, "present") # <<0, 0>>
    THEN io_write_reg(io_read_v(io, "codeword_length",
                                ToInt(Reg(io, "codeword_length_length")),
                                overflow_checks),
                      "codeword_length", 5)
    ELSE io

\* one entry of the non-ordered branch: the present bit is read and written
\* only when sparse
rebuild_entry(io, overflow_checks) ==
    rebuild_codeword_length(
        IF Reg(io, "sparse") # <<0, 0>> THEN io_copy(io, "present", 1)
        ELSE io_let(io, "present", <<0, 1>>),
        overflow_checks)

\* the entry loop of the non-ordered branch, entries lo .. hi-1 (unfolded by
\* halves)
RECURSIVE rebuild_entries(_, _, _, _)
rebuild_entries(io, lo, hi, overflow_checks) ==
    IF io.r # "ok" \/ hi <= lo THEN io
    ELSE IF hi = lo + 1 THEN rebuild_entry(io, overflow_checks)
    ELSE rebuild_entries(rebuild_entries(io, lo, (lo + hi) \div 2, overflow_checks),
                         (lo + hi) \div 2, hi, overflow_checks)

\* codeword_length_length == 0 || codeword_length_length > 5
nonsense_codeword_length(io) ==
    Reg(io, "codeword_length_length") = <<0, 0>>
    \/ ToInt(Reg(io, "codeword_length_length")) > 5

\* the check of codeword_length_length, then the sparse flag is written
rebuild_sparse(io) ==
    io_write_reg(io_fail_if(io, nonsense_codeword_length(io), "err"), "sparse", 1)

\* for i in 0..entries.total
rebuild_all_entries(io, overflow_checks) ==
    rebuild_entries(io, 0, ToInt(Reg(io, "entries")), overflow_checks)

\* the non-ordered branch
rebuild_unordered(io, overflow_checks) ==
    rebuild_all_entries(
        rebuild_sparse(io_read(io_read(io, "codeword_length_length", 3), "sparse", 1)),
        overflow_checks)

\* the codeword lengths after the ordered flag; the ordered branch is the
\* loop of copy
rebuild_lengths(io, overflow_checks) ==
    IF io.r # "ok" THEN io
    ELSE IF Reg(io, "ordered") # <<0, 0>>
    THEN copy_ordered_runs(io_copy(io, "initial_length", 5), 0, overflow_checks)
    ELSE rebuild_unordered(io, overflow_checks)

\* the lookup table: the type was read in 1 bit, so it is 0 or 1
rebuild_lookup(io, overflow_checks) ==
    IF io.r # "ok" \/ Reg(io, "lookup_type") = <<0, 0>> THEN io
    ELSE copy_lookup1(io, overflow_checks)

size_mismatch_rounded_up(io, cb_size) ==
    cb_size # 0 /\ ((get_total_bits_read(io.b) + 7) \div 8) + 1 # cb_size

\* cb_size != 0 && (bis.get_total_bits_read() / 8 + 1) != cb_size as u64,
\* for an i64 cb_size above -2^32
size_mismatch(io, cb_size) ==
    cb_size # 0 /\ (get_total_bits_read(io.b) \div 8) + 1 # cb_size

\* the size check that ends rebuild_from_stream
rebuild_size_check(io, cb_size) == io_fail_if(io, size_mismatch(io, cb_size), "err")

\* BitUint::<BIT_SIZE>::new(name.total)?.write_to(os)?
io_write_as(io, name, BIT_SIZE) == io_write(io, Reg(io, name), BIT_SIZE)

\* CodebookLibrary::rebuild_from_stream
\* (the steps run from the innermost call outwards)
rebuild_from_stream(io, cb_size, overflow_checks) ==
    rebuild_size_check(
      rebuild_lookup(
        io_write_as(
          io_read(
            rebuild_lengths(
              io_copy(
                rebuild_head(io_read(io_read(io, "dimensions", 4), "entries", 14)),
              "ordered", 1),
            overflow_checks),
          "lookup_type", 1),
        "lookup_type", 4),
      overflow_checks),
    cb_size)

\* cb.is_empty() || cb_size == -1, then the rebuild from a stream over cb
\* into the output stream s
rebuild_found(cb, cb_size, s, overflow_checks) ==
    IF cb = <<>> \/ cb_size = -1 THEN io_fail(io_start(new_bit_stream(cb), s), "err")
    ELSE rebuild_from_stream(io_start(new_bit_stream(cb), s), cb_size, overflow_checks)

\* the two lookups of rebuild: a lookup that fails or panics ends the call
rebuild_lookups(cb, cb_size, s, overflow_checks) ==
    IF cb.r # "ok" THEN io_fail(io_start(new_bit_stream(<<>>), s), cb.r)
    ELSE IF cb_size.r # "ok" THEN io_fail(io_start(new_bit_stream(<<>>), s), cb_size.r)
    ELSE rebuild_found(cb.v, cb_size.v, s, overflow_checks)

\* CodebookLibrary::rebuild into the output stream s: the routine state at
\* its return, with the stream over the codebook
rebuild_into(cbl, codebook_id, s, overflow_checks) ==
    rebuild_lookups(get_codebook(cbl, codebook_id), get_codebook_size(cbl, codebook_id),
                    s, overflow_checks)

\* the caller's routine state after a rebuild that ended in state `inner`
rebuild_returned(io, inner) == [io EXCEPT !.s = inner.s, !.r = inner.r]

\* CodebookLibrary::rebuild called from a routine
rebuild(cbl, codebook_id, io, overflow_checks) ==
    IF io.r # "ok" THEN io
    ELSE rebuild_returned(io, rebuild_into(cbl, codebook_id, io.s, overflow_checks))

----------------------------------------------------------------------------
(* The input file and its packets                                           *)

\* read_16_le / read_16_be at byte `pos` of the file: end of file is an error
read_16(bytes, pos, little_endian) ==
    IF pos + 2 > Len(bytes) THEN [r |-> "err", v |-> 0]
    ELSE [r |-> "ok",
          v |-> IF little_endian THEN bytes[pos + 1] + 256 * bytes[pos + 2]
                ELSE 256 * bytes[pos + 1] + bytes[pos + 2]]

\* read_32_le / read_32_be at byte `pos` of the file
read_32(bytes, pos, little_endian) ==
    IF pos + 4 > Len(bytes) THEN [r |-> "err", v |-> <<0, 0>>]
    ELSE [r |-> "ok",
          v |-> IF little_endian
                THEN <<bytes[pos + 3] + 256 * bytes[pos + 4],
                       bytes[pos + 1] + 256 * bytes[pos + 2]>>
                ELSE <<256 * bytes[pos + 1] + bytes[pos + 2],
                       256 * bytes[pos + 3] + bytes[pos + 4]>>]

\* the outcome of two reads in a row
both(first, second) == IF first.r # "ok" THEN first.r ELSE second.r

\* Packet::new: the packet with a 2 or 6 byte header at `offset`
packet_new(bytes, offset, little_endian, no_granule) ==
    LET size == read_16(bytes, offset, little_endian)
        absolute_granule == IF ~no_granule
                            THEN read_32(bytes, offset + 2, little_endian)
                            ELSE [r |-> "ok", v |-> <<0, 0>>]
    IN [ r |-> both(size, absolute_granule),
         offset |-> offset,
         size |-> size.v,
         absolute_granule |-> absolute_granule.v,
         header_size |-> IF no_granule THEN 2 ELSE 6 ]

\* Packet8::new: the packet with an 8 byte header at `offset` (sizes below
\* 2^31 in the files of this model)
packet8_new(bytes, offset, little_endian) ==
    LET size == read_32(bytes, offset, little_endian)
        absolute_granule == read_32(bytes, offset + 4, little_endian)
    IN [ r |-> both(size, absolute_granule),
         offset |-> offset,
         size |-> ToInt(size.v),
         absolute_granule |-> absolute_granule.v,
         header_size |-> 8 ]

\* Packet::offset and Packet8::offset: where the payload starts
packet_offset(p) == p.offset + p.header_size

\* Packet::next_offset and Packet8::next_offset
packet_next_offset(p) == p.offset + p.header_size + p.size

\* self.infile.seek(SeekFrom::Start(offset)) and a BitStream::new on the file
io_seek(io, bytes, offset) ==
    IF io.r # "ok" THEN io
    ELSE [io EXCEPT !.b = [new_bit_stream(bytes) EXCEPT !.pos = offset]]

\* let byte = self.infile.read_u8()?
io_read_u8(io) ==
    IF io.r # "ok" THEN io
    ELSE IF io.b.pos >= Len(io.b.reader) THEN io_fail(io, "err")
    ELSE [io EXCEPT !.b.pos = @ + 1,
                    !.reg = ("byte" :> <<0, io.b.reader[io.b.pos + 1]>>) @@ @]

\* byte = self.infile.read_u8()?; BitUint::<8>::new(byte as u32)?.write_to(os)?
\* for `count` bytes
RECURSIVE copy_file_bytes(_, _)
copy_file_bytes(io, count) ==
    IF io.r # "ok" \/ count <= 0 THEN io
    ELSE copy_file_bytes(io_write_reg(io_read_u8(io), "byte", 8), count - 1)

----------------------------------------------------------------------------
(* WwiseRiffVorbis::generate_ogg_header                                     *)

\* CARGO_PKG_VERSION of the build, here "0.1.0"
PkgVersion == <<48, 46, 49, 46, 48>>

\* "converted from Audiokinetic Wwise by wem_converter " and the version
vendor ==
    <<99, 111, 110, 118, 101, 114, 116, 101, 100, 32, 102, 114, 111, 109,
    32, 65, 117, 100, 105, 111, 107, 105, 110, 101, 116, 105, 99, 32, 87,
    119, 105, 115, 101, 32, 98, 121, 32, 119, 101, 109, 95, 99, 111, 110,
    118, 101, 114, 116, 101, 114, 32>>
    \o PkgVersion

\* format!("{}", n) of an unsigned number, as bytes
RECURSIVE Decimal(_)
Decimal(n) ==
    IF n < 10 THEN <<48 + n>> ELSE Append(Decimal(n \div 10), 48 + (n % 10))

\* "LoopStart=" and "LoopEnd="
LoopStartKey == <<76, 111, 111, 112, 83, 116, 97, 114, 116, 61>>
LoopEndKey == <<76, 111, 111, 112, 69, 110, 100, 61>>

\* for &b in text.as_bytes() { os.write_bits(BitUint::<8>::new(b)?.total, 8)? }
RECURSIVE write_text(_, _, _)
write_text(io, text, j) ==
    IF io.r # "ok" \/ j > Len(text) THEN io
    ELSE write_text(io_write_bits(io, <<0, text[j]>>, 8), text, j + 1)

\* VorbisPacketHeader::write_to
vorbis_packet_header(io, type_) ==
    io_write_all(io_write_bits(io, <<0, type_>>, 8),
                 <<[b |-> 118, n |-> 1], [b |-> 111, n |-> 1], [b |-> 114, n |-> 1],
                   [b |-> 98, n |-> 1], [b |-> 105, n |-> 1], [b |-> 115, n |-> 1]>>)

\* self.avg_bytes_per_second * 8 in u32: the product wraps, or panics when
\* the build checks overflow
nominal_bitrate(avg_bytes_per_second, overflow_checks) ==
    [ r |-> IF avg_bytes_per_second[1] * 8 + ((avg_bytes_per_second[2] * 8) \div 65536)
               >= 65536 /\ overflow_checks
            THEN "panic" ELSE "ok",
      v |-> << (avg_bytes_per_second[1] * 8
                + ((avg_bytes_per_second[2] * 8) \div 65536)) % 65536,
               (avg_bytes_per_second[2] * 8) % 65536 >> ]

\* os.write_bits(self.avg_bytes_per_second * 8, 32)?
write_bitrate(io, bitrate) ==
    IF io.r # "ok" THEN io
    ELSE IF bitrate.r # "ok" THEN io_fail(io, bitrate.r)
    ELSE io_write_bits(io, bitrate.v, 32)

\* the identification packet and its page
\* (the steps run from the innermost call outwards)
identification_packet(io, d) ==
    io_flush_page(
      io_write_bits(
        io_write_bits(
          io_write_bits(
            io_write_bits(
              write_bitrate(
                io_write_bits(
                  io_write_bits(
                    io_write_bits(
                      io_write_bits(vorbis_packet_header(io, 1), <<0, 0>>, 32),
                    <<0, d.channels>>, 8),
                  d.sample_rate, 32),
                <<0, 0>>, 32),
              nominal_bitrate(d.avg_bytes_per_second, d.overflow_checks)),
            <<0, 0>>, 32),
          <<0, d.blocksize_0_pow>>, 4),
        <<0, d.blocksize_1_pow>>, 4),
      <<0, 1>>, 1),
    FALSE, FALSE)

\* a string: its length in 32 bits, then its bytes
write_string(io, text) ==
    write_text(io_write_bits(io, U32(Len(text)), 32), text, 1)

\* the user comments: none, or LoopStart and LoopEnd
user_comments(io, d) ==
    IF d.loop_count = 0 THEN io_write_bits(io, <<0, 0>>, 32)
    ELSE write_string(
             write_string(io_write_bits(io, <<0, 2>>, 32),
                          LoopStartKey \o Decimal(d.loop_start)),
             LoopEndKey \o Decimal(d.loop_end))

\* the comment packet and its page
\* (the steps run from the innermost call outwards)
comment_packet(io, d) ==
    io_flush_page(
      io_write_bits(
        user_comments(write_string(vorbis_packet_header(io, 3), vendor), d),
      <<0, 1>>, 1),
    FALSE, FALSE)

\* CodebookLibrary::rebuild on a library that holds no data: get_codebook
\* fails before anything is written
rebuild_not_loaded(cbl, io) ==
    IF cbl.codebook_data = None \/ cbl.codebook_offsets = None
    THEN io_fail(io, "err") ELSE io

\* a vector local `name`, empty until something is pushed
RegList(io, name) == IF name \in DOMAIN io.reg THEN io.reg[name] ELSE <<>>

\* list.push(value)
io_push(io, list, value) ==
    IF io.r # "ok" THEN io ELSE io_let(io, list, Append(RegList(io, list), value))

\* list.push(name.total)
io_push_reg(io, list, name) == io_push(io, list, ToInt(Reg(io, name)))

\* if name.total >= limit { return Err }
io_below(io, name, limit) == io_fail_if(io, ToInt(Reg(io, name)) >= limit, "err")

\* name is read, written, then checked against limit
io_copy_below(io, name, BIT_SIZE, limit) ==
    io_below(io_copy(io, name, BIT_SIZE), name, limit)

\* codebook_count, floor_count, residue_count, mapping_count, mode_count and
\* the like: the count stored less one
CountOf(io, less1) == ToInt(Reg(io, less1)) + 1

\* the largest of a list of naturals, 0 when it is empty
RECURSIVE MaxOf(_)
MaxOf(list) ==
    IF list = <<>> THEN 0
    ELSE IF Head(list) > MaxOf(Tail(list)) THEN Head(list) ELSE MaxOf(Tail(list))

\* the number of bits set in n
RECURSIVE SetBits(_)
SetBits(n) == IF n = 0 THEN 0 ELSE (n % 2) + SetBits(n \div 2)

\* the sum of f[list[i]], and the sum of the bits set in list[i]
RECURSIVE SumAt(_, _)
SumAt(f, list) == IF list = <<>> THEN 0 ELSE f[Head(list) + 1] + SumAt(f, Tail(list))
RECURSIVE SumSetBits(_)
SumSetBits(list) ==
    IF list = <<>> THEN 0 ELSE SetBits(Head(list) % 256) + SumSetBits(Tail(list))

\* the routines called for the codebooks so far, in order
Calls(io) == IF "calls" \in DOMAIN io.reg THEN io.reg["calls"] ELSE <<>>

\* the call of `routine` for a codebook is about to be made
io_called(io, routine) ==
    IF io.r # "ok" THEN io ELSE io_let(io, "calls", Append(Calls(io), routine))

\* the codebooks of the setup packet when they are inline in the stream
RECURSIVE inline_codebooks(_, _, _, _)
inline_codebooks(io, cbl, d, remaining) ==
    IF io.r # "ok" \/ remaining = 0 THEN io
    ELSE inline_codebooks(IF d.full_setup
                          THEN copy(io_called(io, "copy"), d.overflow_checks)
                          ELSE rebuild_not_loaded(cbl, io_called(io, "rebuild(0)")),
                          cbl, d, remaining - 1)

\* cbl.rebuild(codebook_id.total as usize, os)
rebuild_by_id(io, cbl, d) ==
    rebuild(cbl, ToInt(Reg(io, "codebook_id")), io_called(io, "rebuild(codebook_id)"),
            d.overflow_checks)

\* a rebuild that returned Err: for the id 0x342 a codebook_identifier is
\* read before the error is returned
codebook_id_diagnostic(io) ==
    IF io.r = "err" /\ Reg(io, "codebook_id") = <<0, 834>>
    THEN io_fail(io_read([io EXCEPT !.r = "ok"], "codebook_identifier", 14), "err")
    ELSE io

\* the codebooks of the setup packet when they are in the library cbl, each
\* named in the stream by a 10-bit id
RECURSIVE external_codebooks(_, _, _, _)
external_codebooks(io, cbl, d, remaining) ==
    IF io.r # "ok" \/ remaining = 0 THEN io
    ELSE external_codebooks(
             codebook_id_diagnostic(rebuild_by_id(io_read(io, "codebook_id", 10), cbl, d)),
             cbl, d, remaining - 1)

\* the library is loaded from the file named codebooks_name, then the loop
external_library(io, loaded, d) ==
    IF io.r # "ok" THEN io
    ELSE IF loaded.r # "ok" THEN io_fail(io, "err")
    ELSE external_codebooks(io, loaded.cbl, d, CountOf(io, "codebook_count_less1"))

setup_codebooks_by_full_setup(io, d) ==
    IF d.full_setup
    THEN inline_codebooks(io, new_empty, d, ToInt(Reg(io, "codebook_count_less1")) + 1)
    ELSE external_library(io, new_from_file(d.codebooks), d)

\* for _ in 0..codebook_count, on an empty library when the codebooks are
\* inline and on the loaded one otherwise
setup_codebooks(io, d) ==
    IF d.inline_codebooks
    THEN inline_codebooks(io, new_empty, d, ToInt(Reg(io, "codebook_count_less1")) + 1)
    ELSE external_library(io, new_from_file(d.codebooks), d)

\* let bit = ss.get_bit()?
io_get_bit(io) ==
    io_took(io, "bit", [b |-> get_bit(io.b).b, r |-> get_bit(io.b).r,
                        total |-> <<0, IF get_bit(io.b).bit THEN 1 ELSE 0>>])

\* full setup: the remaining bits of the setup packet, one at a time
RECURSIVE copy_remaining_bits(_, _)
copy_remaining_bits(io, limit) ==
    IF io.r # "ok" \/ get_total_bits_read(io.b) >= limit THEN io
    ELSE copy_remaining_bits(io_write_bits_reg(io_get_bit(io), "bit", 1), limit)

\* a loop of n turns of the body `step` (unfolded by halves)
RECURSIVE repeat(_, _, _, _)

\* floor1_partition_class_list[j] = class_val
floor1_partition_class(io) ==
    io_push_reg(io_copy(io, "class_val", 4), "floor1_partition_class_list", "class_val")

\* the master book of a class that has subclasses
floor1_masterbook(io) ==
    IF io.r = "ok" /\ Reg(io, "class_subclasses") # <<0, 0>>
    THEN io_copy_below(io, "masterbook", 8, CountOf(io, "codebook_count_less1"))
    ELSE io

invalid_subclass_book_unsigned(subclass_book_plus1, codebook_count) ==
    subclass_book_plus1 - 1 < 0 \/ subclass_book_plus1 - 1 >= codebook_count

\* subclass_book >= 0 && subclass_book as u32 >= codebook_count
invalid_subclass_book(subclass_book_plus1, codebook_count) ==
    subclass_book_plus1 - 1 >= 0 /\ subclass_book_plus1 - 1 >= codebook_count

\* the check of a subclass book that was read and written
floor1_subclass_book_check(io) ==
    io_fail_if(io, invalid_subclass_book(ToInt(Reg(io, "subclass_book_plus1")),
                                         CountOf(io, "codebook_count_less1")), "err")

floor1_subclass_book(io) ==
    floor1_subclass_book_check(io_copy(io, "subclass_book_plus1", 8))

\* for _ in 0..(1 << class_subclasses.total)
floor1_subclass_books(io, d) ==
    IF io.r # "ok" THEN io
    ELSE repeat(io, "floor1_subclass_book", Pow2(ToInt(Reg(io, "class_subclasses"))), d)

\* floor1_class_dimensions_list[j] = class_dimensions_less1 + 1
floor1_class_dimensions(io) ==
    io_push(io, "floor1_class_dimensions_list", CountOf(io, "class_dimensions_less1"))

\* one class of a floor
floor1_class(io, d) ==
    floor1_subclass_books(
        floor1_masterbook(
            io_copy(floor1_class_dimensions(io_copy(io, "class_dimensions_less1", 3)),
                    "class_subclasses", 2)),
        d)

\* the loops of a floor: over the partitions, over 0..=maximum_class, and
\* over the dimensions of the class of every partition
floor1_partitions(io, d) ==
    IF io.r # "ok" THEN io
    ELSE repeat(io_let(io, "floor1_partition_class_list", <<>>),
                "floor1_partition_class", ToInt(Reg(io, "floor1_partitions")), d)
floor1_classes(io, d) ==
    IF io.r # "ok" THEN io
    ELSE repeat(io_let(io, "floor1_class_dimensions_list", <<>>),
                "floor1_class", MaxOf(RegList(io, "floor1_partition_class_list")) + 1, d)
floor1_xs(io, d) ==
    IF io.r # "ok" THEN io
    ELSE repeat(io, "floor1_x",
                SumAt(RegList(io, "floor1_class_dimensions_list"),
                      RegList(io, "floor1_partition_class_list")), d)

\* let x = BitUintV::read_from(ss, rangebits)?; x.write_to(os)?
floor1_x(io, d) == io_copy_v(io, "x", ToInt(Reg(io, "rangebits")), d.overflow_checks)

\* one floor: its type is always 1
\* (the steps run from the innermost call outwards)
floor(io, d) ==
    floor1_xs(
      io_copy(
        io_copy(
          floor1_classes(
            floor1_partitions(
              io_copy(io_write(io, <<0, 1>>, 16), "floor1_partitions", 5),
            d),
          d),
        "floor1_multiplier_less1", 2),
      "rangebits", 4),
    d)

\* residue_cascade[j] = high_bits * 8 + low_bits, where high_bits is read
\* and written only when bitflag is set
residue_high_bits(io) ==
    IF io.r = "ok" /\ Reg(io, "bitflag") # <<0, 0>> THEN io_copy(io, "high_bits", 5)
    ELSE io_let(io, "high_bits", <<0, 0>>)
residue_cascade_push(io) ==
    io_push(io, "residue_cascade",
            ToInt(Reg(io, "high_bits")) * 8 + ToInt(Reg(io, "low_bits")))
residue_cascade(io) ==
    residue_cascade_push(
        residue_high_bits(io_copy(io_copy(io, "low_bits", 3), "bitflag", 1)))

\* a book for a bit set in a cascade
residue_book(io) ==
    io_copy_below(io, "residue_book", 8, CountOf(io, "codebook_count_less1"))

\* the loops of a residue: over the classifications, and over the bits set
\* in the low 8 bits of every cascade
residue_cascades(io, d) ==
    IF io.r # "ok" THEN io
    ELSE repeat(io_let(io, "residue_cascade", <<>>), "residue_cascade",
                CountOf(io, "residue_classifications_less1"), d)
residue_books(io, d) ==
    IF io.r # "ok" THEN io
    ELSE repeat(io, "residue_book", SumSetBits(RegList(io, "residue_cascade")), d)

\* the five fields of a residue are read, then written; the class book is
\* checked after it is written
\* (the steps run from the innermost call outwards)
residue_fields(io) ==
    io_write_reg(
      io_write_reg(
        io_write_reg(
          io_write_reg(
            io_write_reg(
              io_read(
                io_read(
                  io_read(
                    io_read(io_read(io, "residue_begin", 24), "residue_end", 24),
                  "residue_partition_size_less1", 24),
                "residue_classifications_less1", 6),
              "residue_classbook", 8),
            "residue_begin", 24),
          "residue_end", 24),
        "residue_partition_size_less1", 24),
      "residue_classifications_less1", 6),
    "residue_classbook", 8)

\* one residue: a type above 2 is refused after it is written
\* (the steps run from the innermost call outwards)
residue(io, d) ==
    residue_books(
      residue_cascades(
        io_below(
          residue_fields(
            io_below(
              io_write_as(io_read(io, "residue_type", 2), "residue_type", 16),
            "residue_type", 3)),
        "residue_classbook", CountOf(io, "codebook_count_less1")),
      d),
    d)

\* submaps is 1 unless the flag is set
mapping_submaps(io) ==
    IF io.r = "ok" /\ Reg(io, "submaps_flag") # <<0, 0>>
    THEN io_copy(io, "submaps_less1", 4)
    ELSE io_let(io, "submaps_less1", <<0, 0>>)

\* angle == magnitude || magnitude >= channels || angle >= channels
invalid_coupling(io, d) ==
    \/ Reg(io, "angle") = Reg(io, "magnitude")
    \/ ToInt(Reg(io, "magnitude")) >= d.channels
    \/ ToInt(Reg(io, "angle")) >= d.channels

\* one coupling step: both are read, both written, then checked
mapping_coupling_check(io, d) == io_fail_if(io, invalid_coupling(io, d), "err")
mapping_coupling(io, d) ==
    mapping_coupling_check(
        io_write_reg(
            io_write_reg(
                io_read_v(io_read_v(io, "magnitude", ilog(d.channels - 1),
                                    d.overflow_checks),
                          "angle", ilog(d.channels - 1), d.overflow_checks),
                "magnitude", ilog(d.channels - 1)),
            "angle", ilog(d.channels - 1)),
        d)

\* the coupling steps of a mapping whose square_polar_flag is set
mapping_coupling_steps(io, d) ==
    IF io.r # "ok" THEN io
    ELSE repeat(io, "mapping_coupling", CountOf(io, "coupling_steps_less1"), d)
mapping_couplings(io, d) ==
    IF io.r = "ok" /\ Reg(io, "square_polar_flag") # <<0, 0>>
    THEN mapping_coupling_steps(io_copy(io, "coupling_steps_less1", 8), d)
    ELSE io

\* the reserved field must be 0
mapping_reserved(io) ==
    io_below(io_copy(io, "mapping_reserved", 2), "mapping_reserved", 1)

\* a mux per channel when there are several submaps
mapping_mux(io) == io_copy_below(io, "mapping_mux", 4, CountOf(io, "submaps_less1"))
mapping_muxes(io, d) ==
    IF io.r = "ok" /\ CountOf(io, "submaps_less1") > 1
    THEN repeat(io, "mapping_mux", d.channels, d)
    ELSE io

\* one submap: the floor and the residue number are each compared with
\* mapping_count
mapping_submap(io) ==
    io_copy_below(
        io_copy_below(io_copy(io, "time_config", 8), "floor_number", 8,
                      CountOf(io, "mapping_count_less1")),
        "residue_number", 8, CountOf(io, "mapping_count_less1"))
mapping_submap_loop(io, d) ==
    IF io.r # "ok" THEN io
    ELSE repeat(io, "mapping_submap", CountOf(io, "submaps_less1"), d)

\* one mapping: its type is always 0
\* (the steps run from the innermost call outwards)
mapping(io, d) ==
    mapping_submap_loop(
      mapping_muxes(
        mapping_reserved(
          mapping_couplings(
            io_copy(
              mapping_submaps(
                io_copy(io_write(io, <<0, 0>>, 16), "submaps_flag", 1)),
            "square_polar_flag", 1),
          d)),
      d),
    d)

mode_blockflag_push_negated(io) ==
    io_push(io, "mode_blockflag", Reg(io, "block_flag") = <<0, 0>>)

\* mode_blockflag.push(block_flag.total != 0)
mode_blockflag_push(io) ==
    io_push(io, "mode_blockflag", Reg(io, "block_flag") # <<0, 0>>)

\* one mode: window type and transform type are always 0
\* (the steps run from the innermost call outwards)
mode(io) ==
    io_copy_below(
      io_write(
        io_write(mode_blockflag_push(io_copy(io, "block_flag", 1)), <<0, 0>>, 16),
      <<0, 0>>, 16),
    "mapping", 8, CountOf(io, "mapping_count_less1"))

\* the body of a loop, by name
do_step(io, step, d) ==
    CASE step = "floor1_partition_class" -> floor1_partition_class(io)
      [] step = "floor1_subclass_book" -> floor1_subclass_book(io)
      [] step = "floor1_class" -> floor1_class(io, d)
      [] step = "floor1_x" -> floor1_x(io, d)
      [] step = "floor" -> floor(io, d)
      [] step = "residue_cascade" -> residue_cascade(io)
      [] step = "residue_book" -> residue_book(io)
      [] step = "residue" -> residue(io, d)
      [] step = "mapping_coupling" -> mapping_coupling(io, d)
      [] step = "mapping_mux" -> mapping_mux(io)
      [] step = "mapping_submap" -> mapping_submap(io)
      [] step = "mapping" -> mapping(io, d)
      [] step = "mode" -> mode(io)

repeat(io, step, n, d) ==
    IF io.r # "ok" \/ n <= 0 THEN io
    ELSE IF n = 1 THEN do_step(io, step, d)
    ELSE repeat(repeat(io, step, n \div 2, d), step, n - (n \div 2), d)

\* a count is read and written less one, then the loop over it runs
counted(io, less1, step, d) ==
    IF io.r # "ok" THEN io
    ELSE repeat(IF step = "mode" THEN io_let(io, "mode_blockflag", <<>>) ELSE io,
                step, CountOf(io, less1), d)
count_and_repeat(io, less1, step, d) == counted(io_copy(io, less1, 6), less1, step, d)

\* the sections of a compact setup in order: the count that is read less
\* one and the body of the loop over it
Sections ==
    << <<"floor_count_less1", "floor">>, <<"residue_count_less1", "residue">>,
       <<"mapping_count_less1", "mapping">>, <<"mode_count_less1", "mode">> >>

\* the sections from the k-th on; mode_blockflag is emptied once the mode
\* count is read
RECURSIVE sections_from(_, _, _)
sections_from(io, d, k) ==
    IF io.r # "ok" \/ k > Len(Sections) THEN io
    ELSE sections_from(count_and_repeat(io, Sections[k][1], Sections[k][2], d), d, k + 1)

\* the floors, residues, mappings and modes of a compact setup, then the
\* framing bit
compact_setup(io, d) == io_write(sections_from(io, d, 1), <<0, 1>>, 1)

\* the checks that follow the page of the setup packet
setup_packet_checks(io, d, setup) ==
    io_fail_if(
        io_fail_if(io, (get_total_bits_read(io.b) + 6) \div 8 # setup.size, "err"),
        packet_next_offset(setup) # d.data_offset + d.first_audio_packet_offset,
        "err")

\* what follows the time domain transforms: in full setup the rest of the
\* packet bit by bit, otherwise the compact setup
setup_rest(io, d, setup) ==
    IF d.full_setup THEN copy_remaining_bits(io, setup.size * 8)
    ELSE compact_setup(io, d)

\* the bits of `bytes` in the order BitStream::get_bit returns them
UnpackedBits(bytes) ==
    [i \in 1..(8 * Len(bytes)) |-> (bytes[(i + 7) \div 8] \div Pow2((i - 1) % 8)) % 2]

\* the bits a BitOggStream holds for the page it is filling: the payload
\* bytes stored so far, then the bits of the byte in progress
OutputBits(s) ==
    UnpackedBits(RBytes(s.page_buffer))
    \o [i \in 1..s.bits_stored |-> (s.bit_buffer \div Pow2(i - 1)) % 2]

\* the codebooks are done: what the page holds and how many bits were read
\* up to here are kept for the claims
codebooks_written(io) ==
    IF io.r # "ok" THEN io
    ELSE io_let(io_let(io, "codebooks_out", OutputBits(io.s)),
                "codebooks_read", get_total_bits_read(io.b))

\* the setup packet `setup` and its page
\* (the steps run from the innermost call outwards)
setup_packet_from(io, d, setup) ==
    setup_packet_checks(
      io_flush_page(
        setup_rest(
          io_write_bits(
            io_write_bits(
              codebooks_written(setup_codebooks(
                io_write_bits_reg(
                  io_read(
                    io_seek(
                      io_fail_if(
                        io_fail_if(vorbis_packet_header(io, 5),
                                   setup.r # "ok",
                                   "err"),
                      setup.absolute_granule # <<0, 0>>, "err"),
                    d.infile, packet_offset(setup)),
                  "codebook_count_less1", 8),
                "codebook_count_less1", 8),
              d)),
            <<0, 0>>, 6),
          <<0, 0>>, 16),
        d, setup),
      FALSE, FALSE),
    d, setup)

\* the setup packet, read at data_offset + setup_packet_offset
setup_packet(io, d) ==
    setup_packet_from(io, d,
                      packet_new(d.infile, d.data_offset + d.setup_packet_offset,
                                 d.little_endian, d.no_granule))

\* generate_ogg_header; the mode_blockflag and mode_bits it leaves are those
\* of generate_ogg in full setup and the locals of the same names otherwise
generate_ogg_header(s, d) ==
    setup_packet(
        comment_packet(
            identification_packet(io_start(new_bit_stream(d.infile), s), d), d), d)

----------------------------------------------------------------------------
(* WwiseRiffVorbis::generate_ogg                                            *)

io_set_granule_as_read(io, granule) == io_wrote(io, set_granule(io.s, granule))

\* ogg_stream.set_granule(granule), 0xFFFFFFFF replaced by 1
io_set_granule(io, granule) ==
    io_wrote(io, set_granule(io.s, IF granule = <<65535, 65535>> THEN <<0, 1>>
                                   ELSE granule))

next_offset_without_header(p) == p.offset + p.size

\* next_offset of the audio loop: audio_packet.next_offset() of the packet
\* read at the offset, with whichever header it has
next_offset(p) == packet_next_offset(p)

\* let flag = mode_blockflag[name.total as usize], as 0 or 1: an index past
\* the end of the table panics
io_blockflag(io, d, name, flag) ==
    IF io.r # "ok" THEN io
    ELSE IF ToInt(Reg(io, name)) >= Len(d.mode_blockflag) THEN io_fail(io, "panic")
    ELSE io_let(io, flag, IF d.mode_blockflag[ToInt(Reg(io, name)) + 1]
                          THEN <<0, 1>> ELSE <<0, 0>>)

\* the mode of the next packet np, when it has a payload: next_blockflag is
\* the block flag of the mode number its first byte starts with
next_mode(io, d, np) ==
    io_blockflag(
      io_read_v(io_seek(io, d.infile, packet_offset(np)),
                "next_mode_number", d.mode_bits, d.overflow_checks),
    d, "next_mode_number", "next_blockflag")

\* the packet np read at next_offset
next_packet(io, d, np) ==
    IF io.r # "ok" THEN io
    ELSE IF np.r # "ok" THEN io_fail(io, "err")
    ELSE IF np.size > 0 THEN next_mode(io, d, np)
    ELSE io

\* next_blockflag: false, unless the header of a next packet fits in the
\* data chunk and that packet is not empty
look_ahead(io, d, p) ==
    IF io.r # "ok" THEN io
    ELSE IF next_offset(p) + p.header_size <= d.data_offset + d.data_size
    THEN next_packet(io_let(io, "next_blockflag", <<0, 0>>), d,
                     packet_new(d.infile, next_offset(p), d.little_endian,
                                d.no_granule))
    ELSE io_let(io, "next_blockflag", <<0, 0>>)

\* a long window: the flags of the previous and of the next window are
\* written, and the file is back at the second byte of the packet
long_window(io, d, p) ==
    io_seek(
      io_write_as(
        io_write(look_ahead(io, d, p),
                 IF d.prev_blockflag THEN <<0, 1>> ELSE <<0, 0>>, 1),
      "next_blockflag", 1),
    d.infile, packet_offset(p) + 1)

window_of_every_mode(io, d, p) ==
    IF io.r # "ok" THEN io ELSE long_window(io, d, p)

\* if mode_blockflag[mode_number.total as usize] { ... }
window(io, d, p) ==
    IF io.r # "ok" THEN io
    ELSE IF Reg(io, "blockflag") = <<0, 1>> THEN long_window(io, d, p)
    ELSE io

\* the first byte of a modified packet: the packet type, the mode number,
\* the window flags of a long window, the rest of the byte
\* (the steps run from the innermost call outwards)
modified_first_byte(io, d, p) ==
    io_write_reg(
      window(
        io_blockflag(
          io_read_v(
            io_write_reg(
              io_read_v(
                io_write(io_fail_if(io, d.mode_blockflag = <<>>, "err"), <<0, 0>>, 1),
              "mode_number", d.mode_bits, d.overflow_checks),
            "mode_number", d.mode_bits),
          "remainder", 8 - d.mode_bits, d.overflow_checks),
        d, "mode_number", "blockflag"),
      d, p),
    "remainder", 8 - d.mode_bits)

\* the first byte of a packet: rewritten when the packets are modified,
\* copied when they are standard
first_byte(io, d, p) ==
    IF d.mod_packets THEN modified_first_byte(io, d, p) ELSE copy_file_bytes(io, 1)

\* the granule of the packet is set once the file is at its payload
seek_and_set_granule(io, d, p) ==
    IF io.r # "ok" THEN io
    ELSE io_set_granule(io_seek(io, d.infile, packet_offset(p)), p.absolute_granule)

\* one turn of the audio loop for the packet p read at the offset
\* (the steps run from the innermost call outwards)
audio_packet_from(s, d, p) ==
    io_flush_page(
      copy_file_bytes(
        first_byte(
          seek_and_set_granule(
            io_fail_if(
              io_fail_if(io_start(new_bit_stream(d.infile), s), p.r # "ok", "err"),
            d.offset + p.header_size > d.data_offset + d.data_size, "err"),
          d, p),
        d, p),
      p.size - 1),
    FALSE, next_offset(p) = d.data_offset + d.data_size)

\* the packet at the offset of the audio loop
audio_packet_at(d) ==
    IF d.old_packet_headers
    THEN packet8_new(d.infile, d.offset, d.little_endian)
    ELSE packet_new(d.infile, d.offset, d.little_endian, d.no_granule)

----------------------------------------------------------------------------
(* The page writer under any sequence of calls                              *)

Idle == [pc |-> "idle"]

\* inputs of the calls
GranuleInputs == {<<4660, 22136>>}
WriteBitsInputs ==
    { [value |-> <<0, 5>>, bits |-> 3],
      [value |-> <<0, 85>>, bits |-> 7],
      [value |-> <<0, 165>>, bits |-> 8],
      [value |-> <<61569, 50085>>, bits |-> 32] }
WriteAllInputs ==
    { Run(165, 1), Run(85, SEGMENT_SIZE),
      Run(170, SEGMENT_SIZE * MAX_SEGMENTS - 1),
      Run(170, SEGMENT_SIZE * MAX_SEGMENTS) }

Init ==
    /\ os = new_stream
    /\ ret = "ok"
    /\ call = [op |-> "new", pre |-> new_stream, arg |-> <<>>]
    /\ emitted = <<>>
    /\ nops = 0
    /\ rt = Idle
    /\ bs = Idle
    /\ qv = Idle
    /\ conv = Idle
    /\ lib = Idle

\* the writer can be called: it was not dropped and the last call came back
Callable ==
    /\ ret \in Returned
    /\ call.op # "drop"
    /\ nops < MaxOps

\* the effect of a call with outcome `out`; `req` is the flush it requests
Called(op, arg, out, req) ==
    /\ os' = out.s
    /\ ret' = out.r
    /\ call' = [op |-> op, pre |-> os, arg |-> arg]
    /\ emitted' = IF Len(out.s.writer) > Len(os.writer)
                  THEN Append(emitted, req) ELSE emitted
    /\ nops' = nops + 1
    /\ UNCHANGED <<rt, bs, qv, conv, lib>>

NoFlush == [next_continued |-> FALSE, last |-> FALSE]

PutBit(bit) ==
    /\ Callable
    /\ Called("put_bit", [bit |-> bit], put_bit(os, bit), NoFlush)

FlushBits ==
    /\ Callable
    /\ Called("flush_bits", <<>>, flush_bits(os), NoFlush)

SetGranule(g) ==
    /\ Callable
    /\ Called("set_granule", [g |-> g], set_granule(os, g), NoFlush)

WriteBits(value, bits) ==
    /\ Callable
    /\ Called("write_bits", [value |-> value, bits |-> bits],
              write_bits(os, value, bits), NoFlush)

WriteAll(buf) ==
    /\ Callable
    /\ Called("write_all", [buf |-> buf], write_all(os, buf), NoFlush)

FlushPage(next_continued, last) ==
    /\ Callable
    /\ Called("flush_page", [next_continued |-> next_continued, last |-> last],
              flush_page(os, next_continued, last),
              [next_continued |-> next_continued, last |-> last])

Drop ==
    /\ ret \in Returned
    /\ call.op # "drop"
    /\ Called("drop", <<>>, drop(os), NoFlush)

Next ==
    \/ \E bit \in BOOLEAN : PutBit(bit)
    \/ FlushBits
    \/ \E g \in GranuleInputs : SetGranule(g)
    \/ \E w \in WriteBitsInputs : WriteBits(w.value, w.bits)
    \/ \E buf \in WriteAllInputs : WriteAll(buf)
    \/ \E next_continued \in BOOLEAN, last \in BOOLEAN : FlushPage(next_continued, last)
    \/ Drop

Spec == Init /\ [][Next]_vars

TypeOK ==
    /\ ret \in Returned => os.bits_stored \in 0..7
    /\ os.bit_buffer \in 0..255
    /\ os.payload_bytes = RLen(os.page_buffer)
    /\ Len(emitted) = Len(os.writer)

----------------------------------------------------------------------------
(* Round trip of a BitUint / BitUintV through a fresh page writer           *)

\* values tried at width w: 0, 1, the top bit, all ones, a mixed pattern
RoundTripValues(w) ==
    { <<0, 0>>, <<0, 1>>, OrBit(<<0, 0>>, w - 1),
      LowBits(<<65535, 65535>>, w), LowBits(<<42435, 3969>>, w) }

InitRoundTrip ==
    /\ os = new_stream
    /\ ret = "ok"
    /\ call = [op |-> "new", pre |-> new_stream, arg |-> <<>>]
    /\ emitted = <<>>
    /\ nops = 0
    /\ \E kind \in {"BitUint", "BitUintV"}, w \in 1..32, checks \in BOOLEAN :
         \E v \in RoundTripValues(w) :
            rt = [pc |-> "new", kind |-> kind, w |-> w, v |-> v,
                  overflow_checks |-> checks, res |-> "ok", back |-> <<0, 0>>]
    /\ bs = Idle
    /\ qv = Idle
    /\ conv = Idle
    /\ lib = Idle

\* BitUint::<w>::new(v) or BitUintV::new(w, v)
RoundTripNew ==
    /\ rt.pc = "new"
    /\ LET made == IF rt.kind = "BitUint" THEN bit_uint_new(rt.w, rt.v)
                   ELSE bit_uint_v_new(rt.w, rt.v, rt.overflow_checks)
       IN rt' = [rt EXCEPT !.pc = IF made.r = "ok" THEN "write" ELSE "done",
                           !.res = made.r]
    /\ UNCHANGED <<os, ret, call, emitted, nops, bs, qv, conv, lib>>

\* write_to into the fresh page writer
RoundTripWrite ==
    /\ rt.pc = "write"
    /\ LET w == write_to(os, rt.v, rt.w)
       IN /\ os' = w.s
          /\ ret' = w.r
          /\ rt' = [rt EXCEPT !.pc = IF w.r = "ok" THEN "flush" ELSE "done",
                              !.res = w.r]
    /\ call' = [op |-> "write_to", pre |-> os, arg |-> <<>>]
    /\ UNCHANGED <<emitted, nops, bs, qv, conv, lib>>

\* flush_page, then a BitStream over the payload of the page written
RoundTripFlush ==
    /\ rt.pc = "flush"
    /\ LET f == flush_page(os, FALSE, FALSE)
       IN /\ os' = f.s
          /\ ret' = f.r
          /\ rt' = [rt EXCEPT !.pc = IF f.r = "ok" THEN "read" ELSE "done",
                              !.res = f.r]
          /\ bs' = IF f.r = "ok" /\ Len(f.s.writer) > 0
                   THEN new_bit_stream(RBytes(f.s.writer[Len(f.s.writer)].payload))
                   ELSE bs
          /\ emitted' = IF Len(f.s.writer) > Len(os.writer)
                        THEN Append(emitted, NoFlush) ELSE emitted
    /\ call' = [op |-> "flush_page", pre |-> os,
                arg |-> [next_continued |-> FALSE, last |-> FALSE]]
    /\ UNCHANGED <<nops, qv, conv, lib>>

\* read_from the BitStream
RoundTripRead ==
    /\ rt.pc = "read"
    /\ LET rd == IF rt.kind = "BitUint" THEN bit_uint_read_from(bs, rt.w)
                 ELSE bit_uint_v_read_from(bs, rt.w, rt.overflow_checks)
       IN /\ bs' = rd.b
          /\ rt' = [rt EXCEPT !.pc = "done", !.res = rd.r, !.back = rd.total]
    /\ UNCHANGED <<os, ret, call, emitted, nops, qv, conv, lib>>

NextRoundTrip ==
    \/ RoundTripNew
    \/ RoundTripWrite
    \/ RoundTripFlush
    \/ RoundTripRead

SpecRoundTrip == InitRoundTrip /\ [][NextRoundTrip]_vars

\* C1: for every width 1..32 and every value below 2^width, constructing the
\* value, writing it, flushing and reading it back succeeds and yields the
\* value unchanged, for BitUint and for BitUintV, width 32 included.
C1_RoundTrip ==
    rt.pc = "done" => (rt.res = "ok" /\ rt.back = rt.v)

\* what does hold: the round trip is exact for every width of BitUint and for
\* the widths below 32 of BitUintV
RoundTripBelow32 ==
    (rt.pc = "done" /\ (rt.kind = "BitUint" \/ rt.w < 32))
        => (rt.res = "ok" /\ rt.back = rt.v /\ get_total_bits_read(bs) = rt.w)

----------------------------------------------------------------------------
(* Claims about the page writer (specification Spec)                        *)

FullPage == SEGMENT_SIZE * MAX_SEGMENTS

\* the last page written
LastPage(s) == s.writer[Len(s.writer)]

\* C2: for every width that is a multiple of 8, every value and every writer
\* state, pending sub-byte bits included, write_bits leaves the payload and
\* the pending-bit accumulator as writing the same bits one at a time through
\* put_bit would.
C2_FastPathMatchesBitPath ==
    (call.op = "write_bits" /\ call.arg.bits % 8 = 0)
        => LET serial == write_bits_serial(call.pre, call.arg.value, 0, call.arg.bits)
           IN /\ os.page_buffer = serial.s.page_buffer
              /\ os.bit_buffer = serial.s.bit_buffer
              /\ os.bits_stored = serial.s.bits_stored

\* C3: the number of payload bytes buffered for the current page is at most
\* 65,025 in every reachable state.
C3_PayloadBounded ==
    /\ os.payload_bytes <= FullPage
    /\ RLen(os.page_buffer) = os.payload_bytes

\* a write was attempted on a full page and the payload stayed at 65,025 bytes
C3_Witness ==
    /\ call.op \in {"write_all", "write_bits"}
    /\ call.pre.payload_bytes = FullPage
    /\ ret = "err"
    /\ os.payload_bytes = FullPage

\* the call offers one more byte to the payload
OffersByte ==
    \/ call.op = "put_bit" /\ call.pre.bits_stored = 7
    \/ call.op = "write_bits" /\ call.arg.bits % 8 # 0
          /\ call.pre.bits_stored + call.arg.bits >= 8
    \/ call.op = "write_bits" /\ call.arg.bits % 8 = 0 /\ call.arg.bits > 0
    \/ call.op = "flush_bits" /\ call.pre.bits_stored > 0
    \/ call.op = "write_all" /\ Len(call.arg.buf) > 0

\* C4: when the payload already holds 65,025 bytes and one more byte is
\* offered, the call terminates and returns an error value.
C4_FullPageWriteReturnsError ==
    (call.pre.payload_bytes = FullPage /\ OffersByte)
        => (ret = "err" /\ os.payload_bytes = FullPage)

\* C5: for every payload length from 1 to 65,025, flush_page completes and
\* writes a page of at most 255 segments, whose segment-count byte equals the
\* number of lacing bytes and whose payload follows unchanged.
C5_FlushPageWritesWellFormedPage ==
    LET pre == flush_bits(call.pre)
    IN (call.op = "flush_page" /\ pre.r = "ok"
          /\ pre.s.payload_bytes \in 1..FullPage)
        => /\ ret = "ok"
           /\ Len(os.writer) = Len(call.pre.writer) + 1
           /\ Len(LastPage(os).lacing) <= MAX_SEGMENTS
           /\ LastPage(os).segments = Len(LastPage(os).lacing)
           /\ LastPage(os).payload = pre.s.page_buffer

\* C6: the k-th page written (k = 0, 1, ...) begins with "OggS", version 0,
\* and carries sequence number k; a flush_page with no payload bytes and no
\* pending bits writes nothing and leaves the sequence number, the first-page
\* flag and the continued flag unchanged.
C6_PagesNumberedEmptyFlushNoOp ==
    /\ \A k \in 1..Len(os.writer) :
          /\ os.writer[k].capture_pattern = <<79, 103, 103, 83>>
          /\ os.writer[k].version = 0
          /\ os.writer[k].seqno = k - 1
    /\ (call.op = "flush_page" /\ call.pre.payload_bytes = 0
          /\ call.pre.bits_stored = 0)
        => /\ ret = "ok"
           /\ os.writer = call.pre.writer
           /\ os.seqno = call.pre.seqno
           /\ os.first = call.pre.first
           /\ os.continued = call.pre.continued

\* two pages were written and then an empty flush was requested
C6_Witness ==
    /\ Len(os.writer) >= 2
    /\ call.op = "flush_page"
    /\ call.pre.payload_bytes = 0
    /\ call.pre.bits_stored = 0

\* C7: in the header flag byte, 0x02 is set on the first page written and on
\* no later page; 0x01 is set on a page iff the page before it was flushed
\* with continued = true; 0x04 is set iff the flush that wrote the page was
\* requested with last = true.
C7_HeaderFlags ==
    \A k \in 1..Len(os.writer) :
        LET flags == os.writer[k].header_type
        IN /\ ((flags \div 2) % 2 = 1) <=> (k = 1)
           /\ (flags % 2 = 1) <=> (k > 1 /\ emitted[k - 1].next_continued)
           /\ ((flags \div 4) % 2 = 1) <=> emitted[k].last

\* a first page flushed with continued = true, a second with last = true
C7_Witness ==
    /\ Len(os.writer) >= 2
    /\ emitted[1].next_continued
    /\ emitted[2].last
    /\ os.writer[1].header_type = 2
    /\ os.writer[2].header_type = 5

\* C9: a page writer dropped with payload bytes or pending bits not yet
\* flushed writes exactly one further page holding them, last flag clear;
\* dropped with nothing pending it writes nothing; the drop itself never
\* fails.
C9_DropFlushesPending ==
    call.op = "drop"
        => /\ ret = "ok"
           /\ IF call.pre.payload_bytes > 0 \/ call.pre.bits_stored > 0
              THEN /\ Len(os.writer) = Len(call.pre.writer) + 1
                   /\ (LastPage(os).header_type \div 4) % 2 = 0
                   /\ LastPage(os).payload = flush_bits(call.pre).s.page_buffer
              ELSE os.writer = call.pre.writer

\* the lacing table of a payload of n bytes: floor(n / 255) + 1 entries, all
\* 255 except the last, which is n mod 255
Laced(page, n) ==
    /\ Len(page.lacing) = (n \div 255) + 1
    /\ page.segments = Len(page.lacing)
    /\ \A i \in 1..(Len(page.lacing) - 1) : page.lacing[i] = 255
    /\ page.lacing[Len(page.lacing)] = n % 255

----------------------------------------------------------------------------
(* book_maptype1_quantvals on the entry counts and dimensions of a codebook *)

\* dimensions tried: the 4-bit range of rebuild and larger ones copy can read
QuantvalsDimensions == {1, 2, 3, 4, 8, 15, 16, 63, 64}

InitQuantvals ==
    /\ os = new_stream
    /\ ret = "ok"
    /\ call = [op |-> "new", pre |-> new_stream, arg |-> <<>>]
    /\ emitted = <<>>
    /\ nops = 0
    /\ rt = Idle
    /\ bs = Idle
    /\ \E entries \in 1..MaxEntries, dimensions \in QuantvalsDimensions,
          checks \in BOOLEAN :
         qv = [pc |-> "call", entries |-> entries, dimensions |-> dimensions,
               overflow_checks |-> checks, r |-> "ok", vals |-> 0,
               overflowed |-> FALSE]
    /\ conv = Idle
    /\ lib = Idle

Quantvals ==
    /\ qv.pc = "call"
    /\ LET q == book_maptype1_quantvals(qv.entries, qv.dimensions, qv.overflow_checks)
       IN qv' = [qv EXCEPT !.pc = "done", !.r = q.r, !.vals = q.vals,
                           !.overflowed = q.overflowed]
    /\ UNCHANGED <<os, ret, call, emitted, nops, rt, bs, conv, lib>>

NextQuantvals == Quantvals

SpecQuantvals == InitQuantvals /\ [][NextQuantvals]_vars

\* v^d capped at cap + 1, by repeated multiplication
RECURSIVE CappedPower(_, _, _)
CappedPower(v, d, cap) ==
    IF d = 0 THEN 1
    ELSE LET rest == CappedPower(v, d - 1, cap)
         IN IF rest * v > cap THEN cap + 1 ELSE rest * v

\* vals^dimensions <= entries < (vals + 1)^dimensions
Brackets(vals, dimensions, entries) ==
    /\ CappedPower(vals, dimensions, entries) <= entries
    /\ CappedPower(vals + 1, dimensions, entries) > entries

\* C10: for every entries >= 1 and dimensions >= 1 a codebook header can
\* hold, book_maptype1_quantvals terminates without arithmetic overflow and
\* returns the vals with vals^dimensions <= entries < (vals+1)^dimensions;
\* (256, 2) gives 16 and (81, 4) gives 3.
C10_QuantvalsBrackets ==
    qv.pc = "done"
        => /\ qv.r = "ok"
           /\ ~qv.overflowed
           /\ Brackets(qv.vals, qv.dimensions, qv.entries)
           /\ (qv.entries = 256 /\ qv.dimensions = 2) => qv.vals = 16
           /\ (qv.entries = 81 /\ qv.dimensions = 4) => qv.vals = 3

\* what does hold: with at most 15 dimensions (the range of rebuild) the
\* search returns the bracketing value and nothing overflows
QuantvalsSmallDimensions ==
    (qv.pc = "done" /\ qv.dimensions <= 15)
        => /\ qv.r = "ok"
           /\ ~qv.overflowed
           /\ Brackets(qv.vals, qv.dimensions, qv.entries)
           /\ (qv.entries = 256 /\ qv.dimensions = 2) => qv.vals = 16
           /\ (qv.entries = 81 /\ qv.dimensions = 4) => qv.vals = 3


----------------------------------------------------------------------------
(* Bit strings                                                              *)

\* n in `width` bits, least significant first
Bits(n, width) == [i \in 1..width |-> (n \div Pow2(i - 1)) % 2]

\* bits packed into bytes as BitStream reads them, the last byte padded
PackedBytes(bits) ==
    LET bit(i) == IF i <= Len(bits) THEN bits[i] ELSE 0
    IN [k \in 1..((Len(bits) + 7) \div 8) |->
          bit(8 * k - 7) + 2 * bit(8 * k - 6) + 4 * bit(8 * k - 5)
          + 8 * bit(8 * k - 4) + 16 * bit(8 * k - 3) + 32 * bit(8 * k - 2)
          + 64 * bit(8 * k - 1) + 128 * bit(8 * k)]

----------------------------------------------------------------------------
(* The codebook table: files, loading and lookups                           *)

\* the four little-endian bytes of an i32 or of a u32 below 2^31
le32(n) ==
    <<n % 256, (n \div 256) % 256, (n \div 65536) % 256,
      ((n - (n % 16777216)) \div 16777216) % 256>>

RECURSIVE OffsetTable(_)
\* the offsets of a table file, four bytes each
OffsetTable(offsets) ==
    IF offsets = <<>> THEN <<>>
    ELSE le32(Head(offsets)) \o OffsetTable(Tail(offsets))

\* a blob of n bytes
Blob(n) == [k \in 1..n |-> 16 * k + 1]

\* a table file: the blob, the offsets, and the trailing pointer to the
\* offsets, which a well-made file sets to the blob length
TableFile(blob, offsets, pointer) == blob \o OffsetTable(offsets) \o le32(pointer)

\* the offsets tried for a blob of n bytes
OffsetValues(n) == {-1, 0, 1, n, n + 1}

\* the pointers tried for a blob of n bytes followed by k offsets
PointerValues(n, k) == {0, n, n + 1, n + 4 * k + 4, n + 4 * k + 5}

\* the offset lists tried for a blob of n bytes
OffsetLists(n) == UNION { [1..k -> OffsetValues(n)] : k \in 0..MaxOffsets }

\* the table files with a blob of n bytes
TableFilesOf(n) ==
    UNION { { TableFile(Blob(n), offsets, pointer) :
                pointer \in PointerValues(n, Len(offsets)) } :
            offsets \in OffsetLists(n) }

\* the files a table is loaded from: some too short to hold a pointer
TableFiles ==
    { Blob(n) : n \in 0..MaxBlob } \cup UNION { TableFilesOf(n) : n \in 0..MaxBlob }

NoLookup == [op |-> "none", i |-> 0, r |-> "ok", v |-> <<>>]

InitLibrary ==
    /\ os = new_stream
    /\ ret = "ok"
    /\ call = [op |-> "new", pre |-> new_stream, arg |-> <<>>]
    /\ emitted = <<>>
    /\ nops = 0
    /\ rt = Idle
    /\ bs = Idle
    /\ qv = Idle
    /\ conv = Idle
    /\ \E file \in TableFiles :
         lib = [pc |-> "file", file |-> file, cbl |-> new_empty, last |-> NoLookup]

\* the state after new_from_file returned `loaded`
Loaded(loaded) ==
    lib' = [lib EXCEPT !.pc = IF loaded.r = "ok" THEN "loaded" ELSE "refused",
                       !.cbl = loaded.cbl]

\* CodebookLibrary::new_from_file
NewFromFile ==
    /\ lib.pc = "file"
    /\ Loaded(new_from_file(lib.file))
    /\ UNCHANGED <<os, ret, call, emitted, nops, rt, bs, qv, conv>>

\* a lookup can be made: the table is loaded and no lookup has panicked
CanLookUp == lib.pc = "loaded" /\ lib.last.r # "panic"

\* the state after lookup `op` of index i returned `found`
LookedUp(op, i, found) ==
    lib' = [lib EXCEPT !.last = [op |-> op, i |-> i, r |-> found.r, v |-> found.v]]

\* CodebookLibrary::get_codebook
GetCodebook ==
    /\ CanLookUp
    /\ \E i \in 0..MaxIndex : LookedUp("get_codebook", i, get_codebook(lib.cbl, i))
    /\ UNCHANGED <<os, ret, call, emitted, nops, rt, bs, qv, conv>>

\* CodebookLibrary::get_codebook_size
GetCodebookSize ==
    /\ CanLookUp
    /\ \E i \in 0..MaxIndex :
         LookedUp("get_codebook_size", i, get_codebook_size(lib.cbl, i))
    /\ UNCHANGED <<os, ret, call, emitted, nops, rt, bs, qv, conv>>

NextLibrary == NewFromFile \/ GetCodebook \/ GetCodebookSize

SpecLibrary == InitLibrary /\ [][NextLibrary]_vars

\* the offsets never decrease, lie in the blob, and the last one is the
\* blob length
WellFormedTable(data, offsets) ==
    /\ \A k \in 1..Len(offsets) : offsets[k] >= 0 /\ offsets[k] <= Len(data)
    /\ \A k \in 1..(Len(offsets) - 1) : offsets[k] <= offsets[k + 1]
    /\ offsets # <<>> => offsets[Len(offsets)] = Len(data)

\* what a lookup of index i < count - 1 is to return
Expected(op, data, offsets, i) ==
    IF op = "get_codebook" THEN SubSeq(data, offsets[i + 1] + 1, offsets[i + 2])
    ELSE offsets[i + 2] - offsets[i + 1]

\* the last lookup returned the slice or the size for an index below
\* count - 1 and an error for any other
LookupRight(data, offsets, count, last) ==
    IF last.i < count - 1
    THEN last.r = "ok" /\ last.v = Expected(last.op, data, offsets, last.i)
    ELSE last.r = "err"

\* C11: on a loaded table whose offsets are well formed, get_codebook(i) and
\* get_codebook_size(i) return the slice between offsets i and i + 1 and its
\* length when i < count - 1, and an error, never a crash, when
\* i >= count - 1, a count of 0 or 1 included.
C11_LookupInRangeOrError ==
    (/\ lib.pc = "loaded"
     /\ lib.last.op \in {"get_codebook", "get_codebook_size"}
     /\ WellFormedTable(lib.cbl.codebook_data[1], lib.cbl.codebook_offsets[1]))
    => LookupRight(lib.cbl.codebook_data[1], lib.cbl.codebook_offsets[1],
                   lib.cbl.codebook_count, lib.last)

\* C12: every table new_from_file constructs has offsets that never decrease,
\* lie within the blob and end at the blob length; other files are refused.
C12_LoadedTableWellFormed ==
    lib.pc = "loaded"
    => WellFormedTable(lib.cbl.codebook_data[1], lib.cbl.codebook_offsets[1])

----------------------------------------------------------------------------
(* Codebooks as bit strings, and the copy of one                            *)

\* the codeword length of entry k, and whether a sparse codebook has it
CodewordLength(k) == (2 * k + 1) % 32
Present(k) == k % 2 = 1

\* entry k of a codebook whose lengths are `width` bits wide
EntryBits(c, k, width) ==
    IF c.lengths = "sparse"
    THEN IF Present(k) THEN <<1>> \o Bits(CodewordLength(k) % Pow2(width), width)
         ELSE <<0>>
    ELSE Bits(CodewordLength(k) % Pow2(width), width)

\* entries k .. c.entries, or for an ordered codebook the runs, of one entry
\* each, that start at entry k
RECURSIVE LengthBits(_, _, _)
LengthBits(c, k, width) ==
    IF k > c.entries THEN <<>>
    ELSE (IF c.lengths = "ordered" THEN Bits(1, ilog(c.entries - (k - 1)))
          ELSE EntryBits(c, k, width))
         \o LengthBits(c, k + 1, width)

\* quantized values k .. n of a lookup table whose value_length is 1
RECURSIVE ValueBits(_, _)
ValueBits(k, n) == IF k > n THEN <<>> ELSE Bits(k % 4, 2) \o ValueBits(k + 1, n)

\* the lookup table of type 1: min, max, value_length 1, sequence_flag, values
Lookup1Bits(c) ==
    Bits(513, 16) \o Bits(0, 16) \o Bits(1, 16) \o Bits(32768, 16)
    \o Bits(1, 4) \o <<1>>
    \o ValueBits(1, book_maptype1_quantvals(c.entries, c.dimensions, TRUE).vals)

\* a codebook as the Vorbis setup header holds it and `copy` reads it
CodebookBits(c) ==
    Bits(c.id, 24) \o Bits(c.dimensions, 16) \o Bits(c.entries, 24)
    \o (CASE c.lengths = "ordered" -> <<1>> \o Bits(2, 5)
          [] c.lengths = "sparse" -> <<0, 1>>
          [] OTHER -> <<0, 0>>)
    \o LengthBits(c, 1, 5)
    \o Bits(c.lookup_type, 4)
    \o (IF c.lookup_type = 1 THEN Lookup1Bits(c) ELSE <<>>)

\* the codebooks tried: the identifier right or wrong, every way of storing
\* the lengths, every lookup type up to 3
Codebooks ==
    [ id : {5653314, 5653315},
      dimensions : 1..MaxDimensions,
      entries : 1..MaxCodebookEntries,
      lengths : {"plain", "sparse", "ordered"},
      lookup_type : 0..3 ]

\* bits that follow a codebook in its stream
Trailer == <<1, 0, 1>>

InitCopy ==
    /\ os = new_stream
    /\ ret = "ok"
    /\ call = [op |-> "new", pre |-> new_stream, arg |-> <<>>]
    /\ emitted = <<>>
    /\ nops = 0
    /\ rt = Idle
    /\ bs = Idle
    /\ qv = Idle
    /\ conv = Idle
    /\ \E c \in Codebooks :
         lib = [pc |-> "codebook", c |-> c,
                reader |-> PackedBytes(CodebookBits(c) \o Trailer),
                r |-> "ok", total_bits_read |-> 0]

\* the state after copy returned in state `io`
Copied(io) ==
    /\ os' = io.s
    /\ lib' = [lib EXCEPT !.pc = "copied", !.r = io.r,
                          !.total_bits_read = io.b.total_bits_read]

\* CodebookLibrary::copy from a stream over the codebook into a new page
Copy ==
    /\ lib.pc = "codebook"
    /\ Copied(copy(io_start(new_bit_stream(lib.reader), new_stream), TRUE))
    /\ UNCHANGED <<ret, call, emitted, nops, rt, bs, qv, conv>>

NextCopy == Copy

SpecCopy == InitCopy /\ [][NextCopy]_vars

\* C13: copy re-serializes a well-formed codebook (right identifier, lengths
\* ordered, sparse or plain, lookup type 0 or 1) verbatim: the bits written
\* are the bits consumed; a wrong identifier or another lookup type is an
\* error.
C13_CopyVerbatim ==
    lib.pc = "copied"
    => IF lib.c.id = 5653314 /\ lib.c.lookup_type \in {0, 1}
       THEN /\ lib.r = "ok"
            /\ OutputBits(os) = SubSeq(UnpackedBits(lib.reader), 1, lib.total_bits_read)
       ELSE lib.r = "err"

----------------------------------------------------------------------------
(* Packed codebooks in a table, and the rebuild of one                      *)

\* a codebook as a table holds it and rebuild_from_stream reads it
PackedCodebookBits(c) ==
    Bits(c.dimensions, 4) \o Bits(c.entries, 14)
    \o (CASE c.lengths = "ordered" -> <<1>> \o Bits(2, 5)
          [] c.lengths = "sparse" -> <<0>> \o Bits(c.codeword_length_length, 3) \o <<1>>
          [] OTHER -> <<0>> \o Bits(c.codeword_length_length, 3) \o <<0>>)
    \o LengthBits(c, 1, c.codeword_length_length)
    \o <<c.lookup_type>>
    \o (IF c.lookup_type = 1 THEN Lookup1Bits(c) ELSE <<>>)

\* the packed codebooks tried; a codeword_length_length of 0 is nonsense
PackedCodebooks ==
    [ dimensions : 1..MaxDimensions,
      entries : 1..MaxCodebookEntries,
      lengths : {"plain", "sparse", "ordered"},
      codeword_length_length : {0, 3},
      lookup_type : 0..1 ]

\* n zero bytes
Padding(n) == [k \in 1..n |-> 0]

\* the table file of one codebook: its bytes and `pad` more, the offset 0
\* and the pointer, which is the offset that ends the codebook
PackedTableFile(c, pad) ==
    TableFile(PackedBytes(PackedCodebookBits(c)) \o Padding(pad), <<0>>,
              Len(PackedBytes(PackedCodebookBits(c))) + pad)

InitRebuild ==
    /\ os = new_stream
    /\ ret = "ok"
    /\ call = [op |-> "new", pre |-> new_stream, arg |-> <<>>]
    /\ emitted = <<>>
    /\ nops = 0
    /\ rt = Idle
    /\ bs = Idle
    /\ qv = Idle
    /\ conv = Idle
    /\ \E c \in PackedCodebooks, pad \in 0..MaxPad :
         lib = [pc |-> "file", file |-> PackedTableFile(c, pad),
                cbl |-> new_empty, last |-> NoLookup]

\* the state after rebuild of codebook i returned in state `inner`
Rebuilt(i, inner) ==
    /\ os' = inner.s
    /\ lib' = [lib EXCEPT !.pc = "rebuilt",
                          !.last = [op |-> "rebuild", i |-> i, r |-> inner.r,
                                    v |-> get_total_bits_read(inner.b)]]

\* CodebookLibrary::rebuild into a new page
Rebuild ==
    /\ lib.pc = "loaded"
    /\ \E i \in 0..1 : Rebuilt(i, rebuild_into(lib.cbl, i, new_stream, TRUE))
    /\ UNCHANGED <<ret, call, emitted, nops, rt, bs, qv, conv>>

NextRebuild == NewFromFile \/ Rebuild

SpecRebuild == InitRebuild /\ [][NextRebuild]_vars

\* the size the table records for the codebook rebuilt last
RecordedSize == lib.cbl.codebook_offsets[1][lib.last.i + 2]
                - lib.cbl.codebook_offsets[1][lib.last.i + 1]

\* a rebuild of a codebook with a nonzero recorded size has returned
RebuiltSized ==
    /\ lib.pc = "rebuilt"
    /\ lib.last.i < lib.cbl.codebook_count - 1
    /\ RecordedSize # 0

\* C18 as stated: a rebuild with a nonzero recorded size succeeds only if
\* the bits consumed, rounded up to whole bytes, plus one, are the recorded
\* size.
C18_SizeIsBytesRoundedUpPlusOne ==
    RebuiltSized /\ lib.last.r = "ok"
    => ((lib.last.v + 7) \div 8) + 1 = RecordedSize

\* C18: a rebuild with a nonzero recorded size succeeds only if the whole
\* bytes in the bits consumed (bits / 8, rounded down), plus one, are the
\* recorded size; with any other nonzero recorded size it returns an error.
C18_SizeIsWholeBytesPlusOne ==
    RebuiltSized
    => /\ lib.last.r = "ok" => (lib.last.v \div 8) + 1 = RecordedSize
       /\ (lib.last.v \div 8) + 1 # RecordedSize => lib.last.r = "err"

\* C18: a rebuild with a nonzero recorded size succeeded on a codebook that
\* does not end on a byte boundary
C18_Witness ==
    /\ RebuiltSized
    /\ lib.last.r = "ok"
    /\ lib.last.v % 8 # 0

----------------------------------------------------------------------------
(* A conversion: generate_ogg on a parsed file                              *)

\* a 16-bit and a 32-bit field of the file in its byte order
Field16(n, little_endian) ==
    IF little_endian THEN <<n % 256, n \div 256>> ELSE <<n \div 256, n % 256>>
Field32(v, little_endian) ==
    IF little_endian THEN Field16(v[2], TRUE) \o Field16(v[1], TRUE)
    ELSE Field16(v[1], FALSE) \o Field16(v[2], FALSE)

\* the header of a packet as Packet::new reads it
PacketHeader(size, granule, little_endian, no_granule) ==
    Field16(size, little_endian)
    \o (IF no_granule THEN <<>> ELSE Field32(granule, little_endian))

\* a canonical codebook of dimension 1 with 2 entries as copy reads it: plain
\* lengths, sparse lengths, ordered lengths, a lookup table of type 1, or a
\* wrong identifier
CodebookKinds == {"plain", "sparse", "ordered", "lookup1", "bad_id"}
CodebookImage(kind) ==
    LET head(id) == Bits(id, 24) \o Bits(1, 16) \o Bits(2, 24)
    IN CASE kind = "plain" ->
              head(5653314) \o <<0, 0>> \o Bits(1, 5) \o Bits(1, 5) \o Bits(0, 4)
         [] kind = "sparse" ->
              head(5653314) \o <<0, 1>> \o <<1>> \o Bits(3, 5) \o <<0>> \o Bits(0, 4)
         [] kind = "ordered" ->
              head(5653314) \o <<1>> \o Bits(1, 5) \o Bits(2, 2) \o Bits(0, 4)
         [] kind = "lookup1" ->
              head(5653314) \o <<0, 0>> \o Bits(1, 5) \o Bits(1, 5) \o Bits(1, 4)
              \o Bits(0, 16) \o Bits(0, 16) \o Bits(1, 16) \o Bits(0, 16)
              \o Bits(0, 4) \o <<1>> \o <<1, 0>>
         [] kind = "bad_id" ->
              head(5653315) \o <<0, 0>> \o Bits(1, 5) \o Bits(1, 5) \o Bits(0, 4)

\* the payload of a setup packet: one codebook, then the bits that stand for
\* the floors, residues, mappings and modes of a full setup
SetupPayload(kind) ==
    PackedBytes(Bits(0, 8) \o CodebookImage(kind) \o <<1, 0, 1, 1, 0, 1, 0, 0, 1, 1>>)

\* payload byte j of audio packet i
AudioByte(i, j) == 16 * i + j

\* the audio packets with the declared sizes, one after another
RECURSIVE AudioPackets(_, _, _, _, _)
AudioPackets(sizes, i, granule_max, little_endian, no_granule) ==
    IF i > Len(sizes) THEN <<>>
    ELSE PacketHeader(sizes[i],
                      IF granule_max THEN <<65535, 65535>> ELSE <<0, 100 * i>>,
                      little_endian, no_granule)
         \o [j \in 1..sizes[i] |-> AudioByte(i, j)]
         \o AudioPackets(sizes, i + 1, granule_max, little_endian, no_granule)

\* declared sizes of the audio packets of a file
PacketSizes == UNION { [1..n -> {0, 2}] : n \in 0..MaxPackets }

\* n copies of `bits`, one after another
RECURSIVE Times(_, _)
Times(bits, n) == IF n <= 0 THEN <<>> ELSE bits \o Times(bits, n - 1)

\* what the compact setups tried differ in; this one passes every check
PlainSetup ==
    [ codebook_ids |-> <<0>>,
      floor_count |-> 1, residue_count |-> 1, mapping_count |-> 1,
      class_subclasses |-> 0, masterbook |-> 0, subclass_book_plus1 |-> 0,
      rangebits |-> 2,
      residue_type |-> 0, residue_classbook |-> 0, residue_book |-> 0,
      coupled |-> FALSE, submaps |-> 1, floor_number |-> 0, residue_number |-> 0,
      mode_mapping |-> 0, mode_blockflags |-> <<FALSE>>,
      value_bits |-> 0, last_bit |-> 0 ]

\* one floor: one partition of class 0, whose dimension is 1
FloorBits(q) ==
    Bits(1, 5) \o Bits(0, 4)
    \o Bits(0, 3) \o Bits(q.class_subclasses, 2)
    \o (IF q.class_subclasses # 0 THEN Bits(q.masterbook, 8) ELSE <<>>)
    \o Times(Bits(q.subclass_book_plus1, 8), Pow2(q.class_subclasses))
    \o Bits(0, 2) \o Bits(q.rangebits, 4) \o Bits(1, q.rangebits)

\* one residue: one classification, whose cascade has its lowest bit set
ResidueBits(q) ==
    Bits(q.residue_type, 2) \o Bits(0, 24) \o Bits(8, 24) \o Bits(1, 24)
    \o Bits(0, 6) \o Bits(q.residue_classbook, 8)
    \o Bits(1, 3) \o <<0>>
    \o Bits(q.residue_book, 8)

\* one mapping of a file with 2 channels: with one coupling step when
\* coupled, with a mux per channel when it has several submaps
MappingBits(q) ==
    (IF q.submaps > 1 THEN <<1>> \o Bits(q.submaps - 1, 4) ELSE <<0>>)
    \o (IF q.coupled THEN <<1>> \o Bits(0, 8) \o <<0>> \o <<1>> ELSE <<0>>)
    \o Bits(0, 2)
    \o (IF q.submaps > 1 THEN Bits(0, 4) \o Bits(1, 4) ELSE <<>>)
    \o Times(Bits(0, 8) \o Bits(q.floor_number, 8) \o Bits(q.residue_number, 8),
             q.submaps)

\* the modes with the block flags `flags`, each on the same mapping
RECURSIVE ModeBits(_, _)
ModeBits(q, flags) ==
    IF flags = <<>> THEN <<>>
    ELSE <<IF Head(flags) THEN 1 ELSE 0>> \o Bits(q.mode_mapping, 8)
         \o ModeBits(q, Tail(flags))

\* the floors, residues, mappings and modes of a compact setup
CompactBits(q) ==
    Bits(q.floor_count - 1, 6) \o Times(FloorBits(q), q.floor_count)
    \o Bits(q.residue_count - 1, 6) \o Times(ResidueBits(q), q.residue_count)
    \o Bits(q.mapping_count - 1, 6) \o Times(MappingBits(q), q.mapping_count)
    \o Bits(Len(q.mode_blockflags) - 1, 6) \o ModeBits(q, q.mode_blockflags)

\* the codebook every such file holds, in full and packed
PlainCodebook ==
    [ id |-> 5653314, dimensions |-> 1, entries |-> 2, lengths |-> "sparse",
      codeword_length_length |-> 3, lookup_type |-> 0 ]

\* a full codebook of 3 entries that ends with a lookup table of type 1: 3
\* values of `value_bits` bits, of which the last bit is `last_bit`
LookupCodebookBits(value_bits, last_bit) ==
    Bits(PlainCodebook.id, 24) \o Bits(1, 16) \o Bits(3, 24) \o <<0, 0>>
    \o Bits(3, 5) \o Bits(5, 5) \o Bits(7, 5)
    \o Bits(1, 4)
    \o Bits(513, 16) \o Bits(0, 16) \o Bits(1, 16) \o Bits(32768, 16)
    \o Bits(value_bits - 1, 4) \o <<1>>
    \o Bits(0, 3 * value_bits - 1) \o <<last_bit>>

\* the full codebook of the setup q
FullCodebookBits(q) ==
    IF q.value_bits = 0 THEN CodebookBits(PlainCodebook)
    ELSE LookupCodebookBits(q.value_bits, q.last_bit)

\* the ids of a setup as the stream holds them
RECURSIVE IdBits(_)
IdBits(ids) == IF ids = <<>> THEN <<>> ELSE Bits(Head(ids), 10) \o IdBits(Tail(ids))

\* the bits that stand for the floors, residues, mappings and modes of a
\* full setup
RestOfFullSetup == <<1, 0, 1, 1, 0, 1, 0, 0, 1, 1>>

\* the payload of the setup packet: the codebook count, the codebooks (full
\* ones to copy, packed ones to rebuild, or ids into the table), the rest
SetupBits(inline, full_setup, q) ==
    Bits(Len(q.codebook_ids) - 1, 8)
    \o (IF ~inline THEN IdBits(q.codebook_ids)
        ELSE IF full_setup THEN Times(FullCodebookBits(q), Len(q.codebook_ids))
        ELSE Times(PackedCodebookBits(PlainCodebook), Len(q.codebook_ids)))
    \o (IF full_setup THEN RestOfFullSetup ELSE CompactBits(q))

\* a packed codebook as a table stores it: its size is the whole bytes of
\* its bits plus one
StoredCodebook(c) ==
    IF Len(PackedCodebookBits(c)) % 8 = 0
    THEN PackedBytes(PackedCodebookBits(c)) \o <<0>>
    ELSE PackedBytes(PackedCodebookBits(c))

\* the table file named by codebooks_name: two codebooks
LibraryFile ==
    TableFile(StoredCodebook(PlainCodebook)
              \o StoredCodebook([PlainCodebook EXCEPT !.lengths = "ordered"]),
              <<0, Len(StoredCodebook(PlainCodebook))>>,
              Len(StoredCodebook(PlainCodebook))
              + Len(StoredCodebook([PlainCodebook EXCEPT !.lengths = "ordered"])))

\* the compact setups tried: the floor and residue numbers of the submaps
\* against every count; every codebook index against the codebook count;
\* the residue types; the mode mapping against the mapping count; the
\* widths that move the end of the setup across a byte; the ids; a coupling
\* step and a second submap
Setups ==
    { [PlainSetup EXCEPT !.floor_count = c[1], !.residue_count = c[2],
                         !.mapping_count = c[3], !.floor_number = n[1],
                         !.residue_number = n[2]] :
        c \in (1..MaxCount) \X (1..MaxCount) \X (1..MaxCount),
        n \in (0..MaxCount) \X (0..MaxCount) }
    \cup { [PlainSetup EXCEPT !.codebook_ids = ids, !.class_subclasses = 1,
                              !.masterbook = i] :
             ids \in {<<0>>, <<0, 1>>}, i \in 0..MaxCount }
    \cup { [PlainSetup EXCEPT !.codebook_ids = ids, !.subclass_book_plus1 = i] :
             ids \in {<<0>>, <<0, 1>>}, i \in 0..(MaxCount + 1) }
    \cup { [PlainSetup EXCEPT !.codebook_ids = ids, !.residue_classbook = i] :
             ids \in {<<0>>, <<0, 1>>}, i \in 0..MaxCount }
    \cup { [PlainSetup EXCEPT !.codebook_ids = ids, !.residue_book = i] :
             ids \in {<<0>>, <<0, 1>>}, i \in 0..MaxCount }
    \cup { [PlainSetup EXCEPT !.residue_type = i] : i \in 0..3 }
    \cup { [PlainSetup EXCEPT !.mapping_count = c, !.mode_mapping = i] :
             c \in 1..MaxCount, i \in 0..MaxCount }
    \cup { [PlainSetup EXCEPT !.rangebits = i] : i \in 0..7 }
    \cup { [PlainSetup EXCEPT !.codebook_ids = ids] :
             ids \in {<<1>>, <<2>>, <<834>>, <<0, 2>>} }
    \cup { [PlainSetup EXCEPT !.coupled = TRUE], [PlainSetup EXCEPT !.submaps = 2] }

\* what a file departs in from the plain one: the kind of its codebook, a
\* first audio packet that does not follow the setup packet, bytes after the
\* data chunk, a setup packet with a granule or with a short declared size,
\* an old header triad, packets without a granule position, a loop
Variants ==
    CodebookKinds \cup {"gap", "trailer", "setup_granule", "setup_size",
                        "triad", "granule_max", "loop"}

\* the parsed file: the descriptor fields generate_ogg reads, the bytes of
\* the file, and the locals of generate_ogg.  `cut` moves the declared end
\* of the data chunk off the end of the last packet.
ConvertInput(no_granule, mod_packets, full_setup, little_endian, sizes, cut, variant) ==
    LET riff == <<82, 73, 70, 70>>
        payload == SetupPayload(IF variant \in CodebookKinds THEN variant ELSE "plain")
        setup_size == IF variant = "setup_size" THEN Len(payload) - 2 ELSE Len(payload)
        setup == PacketHeader(setup_size,
                              IF variant = "setup_granule" THEN <<0, 7>> ELSE <<0, 0>>,
                              little_endian, no_granule)
                 \o payload
        first_audio == (IF no_granule THEN 2 ELSE 6) + setup_size
                       + (IF variant = "gap" THEN 1 ELSE 0)
        audio == AudioPackets(sizes, 1, variant = "granule_max", little_endian, no_granule)
        trailer == IF variant = "trailer" THEN <<76, 73, 83, 84>> ELSE <<>>
    IN [ pc |-> "start",
         result |-> "running",
         infile |-> riff \o setup \o audio \o trailer,
         little_endian |-> little_endian,
         data_offset |-> Len(riff),
         data_size |-> Len(setup) + Len(audio) + cut,
         setup_packet_offset |-> 0,
         first_audio_packet_offset |-> first_audio,
         inline_codebooks |-> TRUE,
         codebooks |-> <<>>,
         family |-> "packets",
         setup |-> PlainSetup,
         setup_padding |-> 0,
         setup_gap |-> IF variant = "gap" THEN 1 ELSE 0,
         header_result |-> "running",
         header_pages |-> 0,
         calls |-> <<>>,
         setup_bits_read |-> 0,
         codebooks_out |-> <<>>,
         codebooks_read |-> 0,
         full_setup |-> full_setup,
         header_triad_present |-> variant = "triad",
         old_packet_headers |-> variant = "triad",
         no_granule |-> no_granule,
         mod_packets |-> mod_packets,
         channels |-> 2,
         sample_rate |-> U32(48000),
         avg_bytes_per_second |-> U32(16000),
         blocksize_0_pow |-> 8,
         blocksize_1_pow |-> 11,
         loop_count |-> IF variant = "loop" THEN 1 ELSE 0,
         loop_start |-> 5,
         loop_end |-> 1200,
         overflow_checks |-> TRUE,
         offset |-> 0,
         mode_blockflag |-> <<>>,
         mode_bits |-> 0,
         prev_blockflag |-> FALSE,
         packets |-> [i \in 1..Len(sizes) |->
                        [ payload |-> [j \in 1..sizes[i] |-> AudioByte(i, j)],
                          granule |-> IF no_granule THEN <<0, 0>>
                                      ELSE IF variant = "granule_max"
                                      THEN <<65535, 65535>> ELSE <<0, 100 * i>> ]],
         turns |-> <<>> ]

\* a file with the setup q: its codebooks inline or in the table, its setup
\* full or compact, the declared size of the setup packet `delta` bytes more
\* than its payload, the first audio packet `gap` bytes after its end
SetupInput(inline, full_setup, q, sizes, delta, gap) ==
    LET riff == <<82, 73, 70, 70>>
        payload == PackedBytes(SetupBits(inline, full_setup, q)) \o Times(<<0>>, delta + gap)
        setup == PacketHeader(Len(payload) - gap, <<0, 0>>, TRUE, TRUE) \o payload
        audio == AudioPackets(sizes, 1, FALSE, TRUE, TRUE)
    IN [ ConvertInput(TRUE, FALSE, full_setup, TRUE, sizes, 0, "plain") EXCEPT
           !.family = "setup",
           !.setup = q,
           !.setup_padding = delta,
           !.setup_gap = gap,
           !.infile = riff \o setup \o audio,
           !.data_size = Len(setup) + Len(audio),
           !.first_audio_packet_offset = Len(setup),
           !.inline_codebooks = inline,
           !.codebooks = LibraryFile ]

\* the first bytes of the modified packets tried: a mode number in the low
\* bits under a mixed pattern
FirstBytes == { 160 + m : m \in 0..MaxModes }

\* a modified packet: empty, or a first byte and the bytes after it
ModifiedPackets ==
    { <<>> } \cup { <<first>> \o [j \in 1..n |-> 240 + j] :
                      first \in FirstBytes, n \in {0, 1} }

\* the packets of a file: none, one, or a first and a last one with empty
\* packets between them
ModifiedPacketLists ==
    { <<>> } \cup { <<a>> : a \in ModifiedPackets }
    \cup { <<a>> \o [i \in 1..n |-> <<>>] \o <<b>> :
             a \in ModifiedPackets, b \in ModifiedPackets, n \in 0..(MaxPackets - 2) }

\* the block flags of the modes of a setup: long and short in turn
ModeTables ==
    { [i \in 1..n |-> (i % 2 = k)] : n \in 1..MaxModes, k \in {0, 1} }

\* the packets with these payloads and 2-byte headers, one after another
RECURSIVE PacketsOf(_)
PacketsOf(payloads) ==
    IF payloads = <<>> THEN <<>>
    ELSE PacketHeader(Len(Head(payloads)), <<0, 0>>, TRUE, TRUE) \o Head(payloads)
         \o PacketsOf(Tail(payloads))

\* the plain setup with these modes, and a floor whose width makes the setup
\* end where the size check of the setup packet accepts it
ModifiedSetup(flags) ==
    IF (Len(SetupBits(FALSE, FALSE, [PlainSetup EXCEPT !.mode_blockflags = flags])) + 6)
           \div 8
       = Len(PackedBytes(SetupBits(FALSE, FALSE,
                                   [PlainSetup EXCEPT !.mode_blockflags = flags])))
    THEN [PlainSetup EXCEPT !.mode_blockflags = flags]
    ELSE [PlainSetup EXCEPT !.mode_blockflags = flags, !.rangebits = 3]

\* a file of modified packets after a compact setup with the modes `flags`,
\* its codebook in the table
ModifiedInput(flags, payloads) ==
    [ SetupInput(FALSE, FALSE, ModifiedSetup(flags), <<>>, 0, 0) EXCEPT
        !.family = "modified",
        !.mod_packets = TRUE,
        !.infile = @ \o PacketsOf(payloads),
        !.data_size = @ + Len(PacketsOf(payloads)),
        !.packets = [i \in 1..Len(payloads) |->
                       [payload |-> payloads[i], granule |-> <<0, 0>>]] ]

InitConvert ==
    /\ os = new_stream
    /\ ret = "ok"
    /\ call = [op |-> "new", pre |-> new_stream, arg |-> <<>>]
    /\ emitted = <<>>
    /\ nops = 0
    /\ rt = Idle
    /\ bs = Idle
    /\ qv = Idle
    /\ lib = Idle
    /\ \/ \E no_granule \in BOOLEAN, mod_packets \in BOOLEAN, full_setup \in BOOLEAN,
          little_endian \in BOOLEAN, sizes \in PacketSizes, cut \in {-1, 0, 1},
          variant \in Variants :
         /\ variant \in {"triad", "setup_granule"} => ~no_granule
         /\ conv = ConvertInput(no_granule, mod_packets, full_setup, little_endian,
                                sizes, cut, variant)
       \/ \E inline \in BOOLEAN, full_setup \in BOOLEAN, q \in Setups,
             sizes \in {<<>>, <<2>>} :
            conv = SetupInput(inline, full_setup, q, sizes, 0, 0)
       \/ \E inline \in BOOLEAN, full_setup \in BOOLEAN, rangebits \in 0..7,
             delta \in {0, 1}, gap \in {0, 1} :
            /\ delta + gap > 0
            /\ conv = SetupInput(inline, full_setup,
                                 [PlainSetup EXCEPT !.rangebits = rangebits],
                                 <<2>>, delta, gap)
       \/ \E value_bits \in 1..MaxValueBits, last_bit \in {0, 1} :
            conv = SetupInput(TRUE, TRUE,
                              [PlainSetup EXCEPT !.value_bits = value_bits,
                                                 !.last_bit = last_bit],
                              <<2>>, 0, 0)
       \/ \E flags \in ModeTables, payloads \in ModifiedPacketLists :
            conv = ModifiedInput(flags, payloads)

\* generate_ogg comes back with `r`: ogg_stream goes out of scope and is
\* dropped when the function returns, and is left as it is when it does not
Finished(s, r) ==
    /\ os' = IF r \in Returned THEN drop(s).s ELSE s
    /\ conv' = [conv EXCEPT !.pc = "done", !.result = r]

\* generate_ogg_header came back with h
HeaderDone(h) ==
    /\ os' = IF h.r = "ok" THEN h.s ELSE IF h.r \in Returned THEN drop(h.s).s ELSE h.s
    /\ conv' = [conv EXCEPT
                  !.pc = IF h.r = "ok" THEN "audio" ELSE "done",
                  !.result = IF h.r = "ok" THEN @ ELSE h.r,
                  !.offset = IF h.r = "ok"
                             THEN conv.data_offset + conv.first_audio_packet_offset
                             ELSE @,
                  !.header_result = h.r,
                  !.header_pages = Len(h.s.writer),
                  !.calls = Calls(h),
                  !.setup_bits_read = get_total_bits_read(h.b),
                  !.codebooks_out = RegList(h, "codebooks_out"),
                  !.codebooks_read = IF "codebooks_read" \in DOMAIN h.reg
                                     THEN h.reg["codebooks_read"] ELSE 0,
                  !.mode_blockflag = IF conv.full_setup THEN @
                                     ELSE RegList(h, "mode_blockflag"),
                  !.mode_bits = IF conv.full_setup THEN @
                                ELSE ilog(ToInt(Reg(h, "mode_count_less1")))]

\* generate_ogg up to the audio loop: the stream is created, then the old
\* header triad is unimplemented and the header pages are written otherwise
GenerateOggHeader ==
    /\ conv.pc = "start"
    /\ IF conv.header_triad_present THEN Finished(new_stream, "panic")
       ELSE HeaderDone(generate_ogg_header(new_stream, conv))
    /\ UNCHANGED <<ret, call, emitted, nops, rt, bs, qv, lib>>

\* the turn for packet p came back with a; `turns` keeps what each turn
\* that came to its end read and wrote
AudioPacketDone(a, p) ==
    IF a.r # "ok" THEN Finished(a.s, a.r)
    ELSE /\ os' = a.s
         /\ conv' = [conv EXCEPT
                       !.offset = next_offset(p),
                       !.prev_blockflag = IF conv.mod_packets
                                          THEN Reg(a, "blockflag") = <<0, 1>> ELSE @,
                       !.turns = Append(@,
                           [ offset |-> conv.offset,
                             size |-> p.size,
                             header_size |-> p.header_size,
                             mode_number |-> ToInt(Reg(a, "mode_number")),
                             blockflag |-> Reg(a, "blockflag") = <<0, 1>>,
                             prev_blockflag |-> conv.prev_blockflag,
                             next_blockflag |-> Reg(a, "next_blockflag") = <<0, 1>> ])]

\* one turn of the audio loop
AudioPacket ==
    /\ conv.pc = "audio"
    /\ conv.offset < conv.data_offset + conv.data_size
    /\ AudioPacketDone(audio_packet_from(os, conv, audio_packet_at(conv)),
                       audio_packet_at(conv))
    /\ UNCHANGED <<ret, call, emitted, nops, rt, bs, qv, lib>>

\* the end of generate_ogg, after the audio loop
GenerateOggReturn ==
    /\ conv.pc = "audio"
    /\ conv.offset >= conv.data_offset + conv.data_size
    /\ Finished(os, IF conv.offset > conv.data_offset + conv.data_size
                    THEN "err" ELSE "ok")
    /\ UNCHANGED <<ret, call, emitted, nops, rt, bs, qv, lib>>

NextConvert ==
    \/ GenerateOggHeader
    \/ AudioPacket
    \/ GenerateOggReturn

SpecConvert == InitConvert /\ [][NextConvert]_vars

\* the header_type of a page has the end-of-stream bit
EndOfStream(page) == (page.header_type \div 4) % 2 = 1

\* the first payload byte of page i of the output is `type_`
PacketType(i, type_) ==
    /\ Len(os.writer) >= i
    /\ RByte(os.writer[i].payload, 0) = type_

\* C8: every conversion that returns success has written an identification
\* page, a comment page, a setup page and at least one audio page; the last
\* page written has header flag 0x04 set and no earlier page has it.
C8_SuccessEndsWithFinalAudioPage ==
    (conv.pc = "done" /\ conv.result = "ok") =>
        /\ PacketType(1, 1)
        /\ PacketType(2, 3)
        /\ PacketType(3, 5)
        /\ Len(os.writer) >= 4
        /\ EndOfStream(os.writer[Len(os.writer)])
        /\ \A i \in 1..(Len(os.writer) - 1) : ~EndOfStream(os.writer[i])

\* a successful conversion with audio packets ends with the one final page
ConvertWithAudioEndsFinal ==
    (conv.pc = "done" /\ conv.result = "ok" /\ Len(os.writer) >= 4) =>
        /\ PacketType(1, 1)
        /\ PacketType(2, 3)
        /\ PacketType(3, 5)
        /\ EndOfStream(os.writer[Len(os.writer)])
        /\ \A i \in 1..(Len(os.writer) - 1) : ~EndOfStream(os.writer[i])

----------------------------------------------------------------------------
(* Claims about the setup packet (specification SpecConvert)                *)

\* generate_ogg_header has returned
HeaderReturned == conv.header_result # "running"

\* generate_ogg_header has returned from a file of the setup family
SetupReturned == conv.family = "setup" /\ HeaderReturned

\* the setup page was written: every check of the setup passed but perhaps
\* the two that follow the page
SetupAccepted == conv.header_pages = 3

\* C14 as stated: each codebook goes through copy exactly when full_setup is
\* on and through rebuild with a 10-bit id read from the stream exactly when
\* it is off, whatever inline_codebooks.
C14_RoutedByFullSetup ==
    HeaderReturned
    => \A k \in 1..Len(conv.calls) :
          /\ conv.calls[k] = "copy" <=> conv.full_setup
          /\ conv.calls[k] = "rebuild(codebook_id)" <=> ~conv.full_setup

\* C14: each codebook goes through copy exactly when inline_codebooks and
\* full_setup are both on, and through rebuild with a 10-bit id read from
\* the stream exactly when inline_codebooks is off, whatever full_setup; a
\* header that succeeds has made one call per codebook.
C14_RoutedByInlineCodebooks ==
    HeaderReturned
    => /\ \A k \in 1..Len(conv.calls) :
             /\ conv.calls[k] = "copy" <=> (conv.inline_codebooks /\ conv.full_setup)
             /\ conv.calls[k] = "rebuild(codebook_id)" <=> ~conv.inline_codebooks
       /\ conv.header_result = "ok" => Len(conv.calls) = Len(conv.setup.codebook_ids)

\* C14: a full setup whose two codebooks came from the table by id
C14_Witness ==
    /\ conv.header_result = "ok"
    /\ conv.full_setup
    /\ ~conv.inline_codebooks
    /\ conv.calls = <<"rebuild(codebook_id)", "rebuild(codebook_id)">>

\* the setup differs from the plain one in its counts and in the floor and
\* residue numbers of its submaps only
OnlySubmapsVary(q) ==
    [q EXCEPT !.floor_count = 1, !.residue_count = 1, !.mapping_count = 1,
              !.floor_number = 0, !.residue_number = 0] = PlainSetup

\* a compact setup with its codebooks in the table was read
CompactFromTable == SetupReturned /\ ~conv.full_setup /\ ~conv.inline_codebooks

\* C15: in compact mode a submap whose floor number is >= floor_count or
\* whose residue number is >= residue_count is an error, and one with both
\* in range is accepted, whatever the mapping count.
C15_SubmapIndicesChecked ==
    CompactFromTable /\ OnlySubmapsVary(conv.setup)
    => IF \/ conv.setup.floor_number >= conv.setup.floor_count
          \/ conv.setup.residue_number >= conv.setup.residue_count
       THEN conv.header_result = "err"
       ELSE SetupAccepted

\* the setup packet as generate_ogg_header reads it
SetupPacket ==
    packet_new(conv.infile, conv.data_offset + conv.setup_packet_offset,
               conv.little_endian, conv.no_granule)

\* C16: once the setup page is written, generate_ogg_header returns an error
\* exactly when the bits read, rounded up to whole bytes, differ from the
\* declared size of the setup packet or the next packet does not start at
\* data_offset + first_audio_packet_offset.
C16_FinalCheck ==
    HeaderReturned /\ SetupAccepted
    => (conv.header_result = "err"
        <=> \/ (conv.setup_bits_read + 7) \div 8 # SetupPacket.size
            \/ packet_next_offset(SetupPacket)
                   # conv.data_offset + conv.first_audio_packet_offset)

\* C19: a well-formed file with inline codebooks and a compact setup is
\* converted: its packed codebooks are read from the setup packet and
\* rebuilt, without a lookup error.
C19_InlineCompactConverts ==
    (/\ SetupReturned
     /\ conv.inline_codebooks
     /\ ~conv.full_setup
     /\ conv.setup = PlainSetup
     /\ conv.setup_padding = 0
     /\ conv.setup_gap = 0)
    => conv.header_result = "ok"

\* an index of the setup q is out of range for `count` codebooks, its
\* residue type is 3, or its mode names a mapping that does not exist
OutOfRange(q, count) ==
    \/ q.class_subclasses # 0 /\ q.masterbook >= count
    \/ q.subclass_book_plus1 # 0 /\ q.subclass_book_plus1 - 1 >= count
    \/ q.residue_classbook >= count
    \/ q.residue_book >= count
    \/ q.residue_type = 3
    \/ q.mode_mapping >= q.mapping_count

\* every id of the setup names a codebook of the table
IdsInTable(q) == \A k \in 1..Len(q.codebook_ids) : q.codebook_ids[k] < 2

----------------------------------------------------------------------------
(* A BitStream read bit by bit to the end of its source and past it         *)

\* byte values of the sources read
SourceBytes == {0, 1, 128, 165, 255}

\* the sources: up to MaxBytes bytes
Sources == UNION { [1..n -> SourceBytes] : n \in 0..MaxBytes }

InitBitStream ==
    /\ os = new_stream
    /\ ret = "ok"
    /\ call = [op |-> "new", pre |-> new_stream, arg |-> <<>>]
    /\ emitted = <<>>
    /\ nops = 0
    /\ rt = Idle
    /\ qv = Idle
    /\ conv = Idle
    /\ lib = Idle
    /\ \E bytes \in Sources :
          bs = [ pc |-> "get_bit", b |-> new_bit_stream(bytes), pre |-> new_bit_stream(bytes),
                 r |-> "new", got |-> <<>> ]

\* a call of get_bit came back with g: the bits returned so far are kept,
\* with the stream as it was before the call
GotBit(g) ==
    bs' = [bs EXCEPT !.b = g.b, !.pre = bs.b, !.r = g.r,
                     !.got = IF g.r = "ok" THEN Append(@, g.bit) ELSE @]

\* get_bit, called again after an error too
GetBit ==
    /\ bs.pc = "get_bit"
    /\ GotBit(get_bit(bs.b))
    /\ UNCHANGED <<os, ret, call, emitted, nops, rt, qv, conv, lib>>

NextBitStream == GetBit

SpecBitStream == InitBitStream /\ [][NextBitStream]_vars

\* C25: get_bit returns the bits of the source byte by byte, the least
\* significant bit of a byte first; after n successful calls
\* get_total_bits_read is n; a call returns an error exactly when the source
\* has no further byte, and then the bit counter, the buffered byte and the
\* count of bits left in it are as they were.
C25_GetBitInOrder ==
    bs.pc = "get_bit"
    => /\ Len(bs.got) <= 8 * Len(bs.b.reader)
       /\ \A i \in 1..Len(bs.got) :
             bs.got[i] = ((bs.b.reader[(i + 7) \div 8] \div Pow2((i - 1) % 8)) % 2 = 1)
       /\ get_total_bits_read(bs.b) = Len(bs.got)
       /\ bs.r = "err" <=> (bs.r # "new" /\ get_total_bits_read(bs.pre) = 8 * Len(bs.b.reader))
       /\ bs.r = "err" => bs.b = bs.pre

\* C25: both bytes of the source 165, 1 were read to the end and the next
\* call failed
C25_Witness ==
    /\ bs.pc = "get_bit"
    /\ bs.b.reader = <<165, 1>>
    /\ Len(bs.got) = 16
    /\ bs.r = "err"

----------------------------------------------------------------------------
(* Claims about the audio packets (specification SpecConvert)               *)

\* the least k with 2^k >= n
RECURSIVE CeilLog2From(_, _)
CeilLog2From(n, k) == IF Pow2(k) >= n THEN k ELSE CeilLog2From(n, k + 1)
CeilLog2(n) == CeilLog2From(n, 0)

\* generate_ogg_header has rebuilt a compact setup
CompactRebuilt == conv.header_result = "ok" /\ ~conv.full_setup

\* the modes of the setup of the file
mode_count == Len(conv.setup.mode_blockflags)

\* C21 as stated: after a compact setup with mode_count modes was rebuilt,
\* the mode table has the mode_count block flags in stream order and
\* mode_bits is ceil(log2(mode_count - 1)), for two modes and more.
C21_ModeBitsOfCountLessOne ==
    CompactRebuilt
    => /\ conv.mode_blockflag = conv.setup.mode_blockflags
       /\ mode_count >= 2 => conv.mode_bits = CeilLog2(mode_count - 1)

\* C21: after a compact setup with mode_count modes was rebuilt, the mode
\* table has the mode_count block flags in stream order and mode_bits is
\* ceil(log2(mode_count)), the width of mode_count - 1.
C21_ModeTableAndBits ==
    CompactRebuilt
    => /\ conv.mode_blockflag = conv.setup.mode_blockflags
       /\ conv.mode_bits = CeilLog2(mode_count)

\* C21: a setup with the modes long, short, long was rebuilt
C21_Witness ==
    /\ CompactRebuilt
    /\ conv.setup.mode_blockflags = <<TRUE, FALSE, TRUE>>
    /\ conv.mode_bits = 2

\* the page of the i-th audio packet
AudioPage(i) == os.writer[conv.header_pages + i]

\* the file holds modified packets and a mode table to read them with
Modified == conv.mod_packets /\ conv.mode_blockflag # <<>>

\* 0 or 1 for a flag
FlagBit(flag) == IF flag THEN 1 ELSE 0

\* the packet the claim describes for the i-th audio packet, whose first
\* byte holds the mode number m: the type bit, m, the two window flags of a
\* long window, the rest of the first byte, the bytes after it
ModifiedPacketBits(i, m) ==
    <<0>> \o Bits(m, conv.mode_bits)
    \o (IF conv.mode_blockflag[m + 1]
        THEN <<FlagBit(conv.turns[i].prev_blockflag),
               FlagBit(conv.turns[i].next_blockflag)>>
        ELSE <<>>)
    \o Bits(conv.packets[i].payload[1] \div Pow2(conv.mode_bits), 8 - conv.mode_bits)
    \o UnpackedBits(Tail(conv.packets[i].payload))

\* C23: the page of a modified audio packet of s >= 1 bytes holds one 0 bit,
\* the mode number m of its first byte, the previous-window and next-window
\* flags when mode m is long, the rest of the first byte and bytes 2..s, so
\* 8s+1 or 8s+3 bits; the previous-window flag is the block flag of the
\* mode of the packet before, and 0 for the first packet.
C23_ModifiedPacketLayout ==
    Modified
    => \A i \in 1..Len(conv.turns) :
          conv.turns[i].size >= 1
          => /\ conv.turns[i].mode_number
                = conv.packets[i].payload[1] % Pow2(conv.mode_bits)
             /\ RBytes(AudioPage(i).payload)
                = PackedBytes(ModifiedPacketBits(i, conv.turns[i].mode_number))
             /\ Len(ModifiedPacketBits(i, conv.turns[i].mode_number))
                = 8 * conv.turns[i].size
                  + (IF conv.mode_blockflag[conv.turns[i].mode_number + 1] THEN 3 ELSE 1)
             /\ conv.turns[i].prev_blockflag
                = (i > 1 /\ conv.mode_blockflag[conv.turns[i - 1].mode_number + 1])

\* C23: a long-window packet of 2 bytes after a long-window packet, in a
\* file with three modes
C23_Witness ==
    /\ Modified
    /\ Len(conv.mode_blockflag) = 3
    /\ Len(conv.turns) = 2
    /\ conv.turns[2].size = 2
    /\ conv.turns[2].blockflag
    /\ conv.turns[2].prev_blockflag

\* where the data chunk ends
data_end == conv.data_offset + conv.data_size

\* where the packet of a turn ends
TurnEnd(turn) == turn.offset + turn.header_size + turn.size

\* the audio loop is running or generate_ogg returned Ok
LoopAlive == conv.pc = "audio" \/ (conv.pc = "done" /\ conv.result = "ok")

\* C24: the audio loop writes one page per audio packet, in input order,
\* with the granule of the packet (0xFFFFFFFF replaced by 1) and with the
\* last flag exactly when the packet ends at data_offset + data_size; a
\* packet that ends beyond the data chunk makes the conversion return an
\* error.
C24_OnePagePerPacket ==
    /\ LoopAlive
       => /\ Len(os.writer) = conv.header_pages + Len(conv.turns)
          /\ Len(conv.turns) <= Len(conv.packets)
          /\ \A i \in 1..Len(conv.turns) :
                /\ conv.turns[i].offset
                   = IF i = 1 THEN conv.data_offset + conv.first_audio_packet_offset
                     ELSE TurnEnd(conv.turns[i - 1])
                /\ conv.turns[i].size = Len(conv.packets[i].payload)
                /\ AudioPage(i).granule
                   = IF conv.packets[i].granule = <<65535, 65535>> THEN <<0, 1>>
                     ELSE conv.packets[i].granule
                /\ EndOfStream(AudioPage(i)) <=> TurnEnd(conv.turns[i]) = data_end
    /\ conv.pc = "done" /\ conv.result = "ok"
       => /\ Len(conv.turns) = Len(conv.packets)
          /\ \A i \in 1..Len(conv.turns) : TurnEnd(conv.turns[i]) <= data_end
    /\ (conv.pc = "done" /\ \E i \in 1..Len(conv.turns) : TurnEnd(conv.turns[i]) > data_end)
       => conv.result = "err"

\* C24: two packets with the granule 0xFFFFFFFF were converted
C24_Witness ==
    /\ conv.pc = "done"
    /\ conv.result = "ok"
    /\ Len(conv.turns) = 2
    /\ conv.packets[1].granule = <<65535, 65535>>
    /\ AudioPage(1).granule = <<0, 1>>
    /\ EndOfStream(AudioPage(2))

\* every turn of the audio loop moves the offset forward by the header of
\* the packet, of 2, 6 or 8 bytes, and by its declared size
OffsetAdvances ==
    (conv.pc = "audio" /\ conv'.pc = "audio")
    => /\ Len(conv'.turns) = Len(conv.turns) + 1
       /\ conv'.turns[Len(conv'.turns)].header_size \in {2, 6, 8}
       /\ conv'.offset = conv.offset + conv'.turns[Len(conv'.turns)].header_size
                         + conv'.turns[Len(conv'.turns)].size
       /\ conv'.offset > conv.offset

\* C26: the audio loop ends for every data chunk: each turn moves the offset
\* forward by the header size plus the declared size, so the offset grows
\* until it reaches or passes data_offset + data_size, whatever the sizes,
\* 0 included.
C26_LoopTerminates ==
    /\ [][OffsetAdvances]_vars
    /\ <>(conv.pc = "done")
    /\ [](conv.pc = "done" /\ conv.result = "ok" => conv.offset >= data_end)

\* C26: a conversion went through three packets, one of them empty
C26_Witness ==
    /\ conv.pc = "done"
    /\ Len(conv.turns) = 3
    /\ \E i \in 1..3 : conv.turns[i].size = 0

\* generate_ogg has not come back: NextConvert can take a step, and one that
\* changes the state, exactly then
Running == conv.pc # "done"

\* the conversion runs on while it can: WF_vars(NextConvert), with
\* ENABLED <<NextConvert>>_vars written out as Running
FairConvert == SpecConvert /\ ([]<>(~Running) \/ []<><<NextConvert>>_vars)

\* the payloads of the pages from the i-th audio packet on, one after another
RECURSIVE PagesFrom(_)
PagesFrom(i) ==
    IF conv.header_pages + i > Len(os.writer) THEN <<>>
    ELSE RBytes(AudioPage(i).payload) \o PagesFrom(i + 1)

\* the payloads of the packets from the i-th to the n-th, one after another
RECURSIVE PayloadsFrom(_, _)
PayloadsFrom(i, n) ==
    IF i > n THEN <<>> ELSE conv.packets[i].payload \o PayloadsFrom(i + 1, n)

\* C27: with standard packets the audio pages hold the payload bytes of the
\* packets converted, in order, and no other byte, whatever the declared
\* sizes, 0 included.
C27_StandardPayloadVerbatim ==
    (LoopAlive /\ ~conv.mod_packets)
    => PagesFrom(1) = PayloadsFrom(1, Len(conv.turns))

\* C28: with modified packets a mode number past the end of the mode table,
\* in a packet or in the packet looked ahead at, makes the conversion return
\* an error and never panic.
C28_ModeNumberChecked ==
    (Modified /\ conv.pc = "done") => conv.result \in {"ok", "err"}

\* C29: the next-window flag written for a long-window packet is the block
\* flag of the mode the next packet is then converted with, whatever the
\* declared size of that packet, and 0 for the last packet of the data
\* chunk.
C29_NextWindowFlag ==
    Modified
    => \A i \in 1..Len(conv.turns) :
          conv.turns[i].blockflag
          => /\ i < Len(conv.turns)
                => conv.turns[i].next_blockflag = conv.turns[i + 1].blockflag
             /\ TurnEnd(conv.turns[i]) = data_end => ~conv.turns[i].next_blockflag

\* the setup packet of the output, bit by bit
SetupPageBits == UnpackedBits(RBytes(os.writer[3].payload))

\* the payload of the packet p of the input, bit by bit
PayloadBits(p) ==
    UnpackedBits(SubSeq(conv.infile, packet_offset(p) + 1, packet_offset(p) + p.size))

\* the setup packet of the input, bit by bit
SetupPacketBits ==
    PayloadBits(packet_new(conv.infile, conv.data_offset + conv.setup_packet_offset,
                           conv.little_endian, conv.no_granule))

\* n zero bits
Zeros(n) == [i \in 1..n |-> 0]

\* what follows the placeholder in a full setup: the rest of the input
\* packet, bit for bit
RestOfInput ==
    SubSeq(SetupPacketBits, conv.codebooks_read + 1, Len(SetupPacketBits))

\* C22: in the setup packet written, the bits of the last codebook are
\* followed at once by 6 zero bits and 16 zero bits, and these by the bits
\* of the floors, residues, mappings and modes (in full setup by the rest of
\* the input packet as it is), wherever the codebooks end in a byte and
\* whatever their last bit.
C22_PlaceholderAfterCodebooks ==
    SetupAccepted
    => /\ Len(SetupPageBits) >= Len(conv.codebooks_out) + 22
       /\ SubSeq(SetupPageBits, 1, Len(conv.codebooks_out) + 22)
          = conv.codebooks_out \o Zeros(22)
       /\ conv.full_setup
          => SetupPageBits
             = UnpackedBits(PackedBytes(conv.codebooks_out \o Zeros(22) \o RestOfInput))

----------------------------------------------------------------------------
(* copy and rebuild_from_stream on streams that are not codebooks           *)

\* every string of up to n bits
BitStrings(n) == UNION { [1..k -> {0, 1}] : k \in 0..n }

\* the head of a codebook of the given dimensions and entries, for copy and
\* for rebuild_from_stream
StreamHead(routine, dimensions, entries) ==
    IF routine = "copy"
    THEN Bits(5653314, 24) \o Bits(dimensions, 16) \o Bits(entries, 24)
    ELSE Bits(dimensions, 4) \o Bits(entries, 14)

\* an ordered codebook whose runs, and whatever follows them, are the bits
\* of `tail`: runs of no entry, runs past the last entry, a stream that ends
\* in a run
OrderedStream(routine, dimensions, entries, tail) ==
    StreamHead(routine, dimensions, entries) \o <<1>> \o Bits(2, 5) \o tail

\* a codebook with a lookup table of type 1, of any dimensions and entries
LookupStream(routine, c) ==
    IF routine = "copy" THEN CodebookBits(c) ELSE PackedCodebookBits(c)

\* the codebooks with a lookup table of type 1; dimensions and entries may
\* be 0
LookupCodebooks ==
    [ id : {5653314},
      dimensions : 0..MaxDimensions,
      entries : 0..MaxCodebookEntries,
      lengths : {"plain", "sparse", "ordered"},
      codeword_length_length : {3},
      lookup_type : {1} ]

Routines == {"copy", "rebuild_from_stream"}

\* the streams read
Streams(routine) ==
    { OrderedStream(routine, dimensions, entries, tail) :
        dimensions \in 0..MaxDimensions, entries \in 0..MaxCodebookEntries,
        tail \in BitStrings(MaxTail) }
    \cup { LookupStream(routine, c) : c \in LookupCodebooks }

InitStreams ==
    /\ os = new_stream
    /\ ret = "ok"
    /\ call = [op |-> "new", pre |-> new_stream, arg |-> <<>>]
    /\ emitted = <<>>
    /\ nops = 0
    /\ rt = Idle
    /\ bs = Idle
    /\ qv = Idle
    /\ conv = Idle
    /\ \E routine \in Routines, overflow_checks \in BOOLEAN :
         \E bits \in Streams(routine) :
            lib = [pc |-> routine, bits |-> bits, reader |-> PackedBytes(bits),
                   overflow_checks |-> overflow_checks,
                   r |-> "running", total_bits_read |-> 0]

\* the routine came back in state `io`
StreamDone(io) ==
    /\ os' = io.s
    /\ lib' = [lib EXCEPT !.pc = "returned", !.r = io.r,
                          !.total_bits_read = get_total_bits_read(io.b)]

\* CodebookLibrary::copy on the stream
CopyStream ==
    /\ lib.pc = "copy"
    /\ StreamDone(copy(io_start(new_bit_stream(lib.reader), new_stream),
                       lib.overflow_checks))
    /\ UNCHANGED <<ret, call, emitted, nops, rt, bs, qv, conv>>

\* CodebookLibrary::rebuild_from_stream on the stream, with no size recorded
RebuildStream ==
    /\ lib.pc = "rebuild_from_stream"
    /\ StreamDone(rebuild_from_stream(io_start(new_bit_stream(lib.reader), new_stream),
                                      0, lib.overflow_checks))
    /\ UNCHANGED <<ret, call, emitted, nops, rt, bs, qv, conv>>

NextStreams == CopyStream \/ RebuildStream

SpecStreams == InitStreams /\ [][NextStreams]_vars

\* C30: rebuild and copy come back from every finite stream with Ok or an
\* error and never panic or run on: from ordered codebooks with runs of no
\* entry, with a run past the last entry, and from a codebook with a lookup
\* table of type 1 and dimensions 0.
C30_CodebookRoutinesReturn ==
    lib.pc = "returned" => lib.r \in {"ok", "err"}

====
